---- MODULE Spec2Model ----
\* Peer lifecycle and control plane of bus1 (ipc/bus1/peer.c): CONNECT,
\* RESOLVE, DISCONNECT and domain-assisted teardown of the peers of one domain,
\* run by concurrent threads.
EXTENDS Integers, Sequences, FiniteSets, TLC

\* ------------------------------------------------------------------ bounds
NPeers == 2
NThreads == 2
MaxNames == 2
MaxByte == 2
MaxCalls == 3
MaxRefs == 1
MaxIoCalls == 4
MaxMsgs == 2
MaxFiles == 2

\* ------------------------------------------------------- program constants
PAGE_SIZE == 4096
BUS1_NAME_MAX_SIZE == 256
EPERM == 1
ENXIO == 6
EAGAIN == 11
ENOMEM == 12
EFAULT == 14
EINVAL == 22
EMFILE == 24
EREMCHG == 78
EMSGSIZE == 90
EISCONN == 106
ENOTCONN == 107
ESHUTDOWN == 108
EISNAM == 120

Peers == 1..NPeers
Threads == 1..NThreads
NoOwner == 0
DomainOwner == NThreads + 1
UIDs == {"root"}
NoUser == "nobody"
NoNode == [peer |-> 0, name |-> <<>>, id |-> 0]
NoMsg == [id |-> 0, n_files |-> 0, size |-> 0, committed |-> FALSE]

RECURSIVE SeqsUpTo(_, _)
SeqsUpTo(S, n) ==
    IF n = 0 THEN {<<>>}
    ELSE LET shorter == SeqsUpTo(S, n - 1)
         IN  shorter \cup {Append(s, x) : s \in {q \in shorter : Len(q) = n - 1}, x \in S}

\* the name blobs a caller passes: up to MaxNames one-byte names, each followed
\* by its NUL, and a few blobs that are not well formed
RECURSIVE Encode(_)
Encode(l) == IF l = <<>> THEN <<>> ELSE Head(l) \o <<0>> \o Encode(Tail(l))

NameStrings == {<<b>> : b \in 1..MaxByte}
WellFormedBlobs == {Encode(l) : l \in SeqsUpTo(NameStrings, MaxNames)}
MalformedBlobs == {<<0>>, <<1>>, <<1, 0, 0>>, <<1, 0, 2>>}
Blobs == WellFormedBlobs \cup MalformedBlobs
PoolSizes == {0, PAGE_SIZE, 2 * PAGE_SIZE, PAGE_SIZE + 1}
ConnectFlags == {"PEER", "MONITOR", "QUERY", "RESET"}
FlagSets == SUBSET (ConnectFlags \cup {"UNKNOWN"})
ValidFlagSets == {fl \in SUBSET ConnectFlags : Cardinality(fl \cap {"PEER", "MONITOR", "RESET"}) <= 1}
OomPoints == {"none", "info", "user", "name"}

\* what the callers of SEND and RECV pass: the destination ids (BadId is the id
\* of no peer), the number of files attached to a message; the peer the
\* senders use
BadId == NPeers + 1
DestLists == {<<1>>, <<1, 2>>, <<1, BadId>>}
Senders == {2}
MsgFiles == 0..MaxFiles
WriteErrors == {-ENOMEM, -EFAULT}
IoOps == {"SLICE_RELEASE", "SEND", "RECV"}

VARIABLES
    active,       \* peer -> lifecycle state of peer->active
    acount,       \* peer -> number of active references in flight
    rwlock,       \* peer -> thread holding peer->rwlock for writing, or NoOwner
    info,         \* peer -> TRUE iff peer->info is non-NULL
    obj,          \* peer -> the peer_info object once published to peer->info
    names,        \* peer -> peer->names, head first
    dlock,        \* holder of domain->lock, or NoOwner
    seqcount,     \* domain->seqcount
    map_names,    \* domain->map_names: the set of linked peer_name nodes
    n_names,      \* domain->n_names
    list_peers,   \* domain->list_peers, head first
    n_peers,      \* domain->n_peers
    users,        \* uid -> references held on the domain's user object
    dom_active,   \* TRUE while the domain's active-ref can be acquired
    dom_refs,     \* active references on the domain in flight
    dpc,          \* position of the domain teardown
    dset,         \* peers the domain teardown has deactivated
    pc,           \* thread -> position
    loc,          \* thread -> locals of the call in progress
    calls,        \* number of calls made so far
    queue,        \* peer -> nodes linked in peer_info->queue, staged and committed
    slices,       \* peer -> slices allocated in peer_info->pool
    nmsg,         \* number of transactions built so far
    log,          \* history: peer -> messages in the order they were committed
    taken,        \* history: peer -> messages in the order they were dequeued
    flushed,      \* history: peer -> messages that were linked when a flush ran
    ilock,        \* peer -> the thread that holds peer_info->lock, or NoOwner
    peeked,       \* history: peer -> what the last PEEK reported, <<>> once the
                  \* first message was dequeued or flushed
    n_cleanup,    \* history: peer -> completed runs of the cleanup body
    n_free,       \* history: peer -> bus1_peer_info_free calls on its info
    n_disc,       \* history: peer -> DISCONNECT calls on it that returned 0
    ret,          \* history: the call that returned in the last step, if any
    snap          \* history: peer -> domain state when its CONNECT began

peerVars == <<active, acount, rwlock, info, obj, names>>
domVars == <<dlock, seqcount, map_names, n_names, list_peers, n_peers, users>>
domLife == <<dom_active, dom_refs, dpc, dset>>
ioVars == <<queue, slices, nmsg, log, taken, flushed, peeked, ilock>>
histVars == <<n_cleanup, n_free, n_disc, snap>>
vars == <<active, acount, rwlock, info, obj, names, dlock, seqcount, map_names,
          n_names, list_peers, n_peers, users, dom_active, dom_refs, dpc, dset,
          pc, loc, calls, queue, slices, nmsg, log, taken, flushed, peeked, ilock,
          n_cleanup, n_free, n_disc, snap, ret>>

\* ------------------------------------------------ active-ref (contract 4.1)
bus1_active_is_new(a) == a = "NEW"
bus1_active_is_active(a) == a = "ACTIVE"
bus1_active_is_deactivated(a) == a \in {"DEACTIVATING", "DEAD"}
bus1_active_activate(a) == IF a = "NEW" THEN "ACTIVE" ELSE a
bus1_active_deactivate(a) == IF a = "ACTIVE" THEN "DEACTIVATING" ELSE a
\* variant: the drain does not wait
bus1_active_drain_nowait(cnt) == TRUE

\* drain returns once no reference is in flight
bus1_active_drain(cnt) == cnt = 0

\* cleanup fires for the first caller after drain, and for nobody afterwards
bus1_active_cleanup(a, cnt) == a \in {"NEW", "DEACTIVATING"} /\ cnt = 0

\* --------------------------------------------------------- string helpers
\* strnlen(s, Len(s)): bytes before the first NUL, or the whole length
strnlen(s) ==
    IF \E i \in 1..Len(s) : s[i] = 0
    THEN (CHOOSE i \in 1..Len(s) : s[i] = 0 /\ \A j \in 1..(i - 1) : s[j] # 0) - 1
    ELSE Len(s)

CStr(s) == SubSeq(s, 1, strnlen(s))
Rest(s, n) == SubSeq(s, n + 2, Len(s))

\* --------------------------------------------------------------- names
\* bus1_peer_name_new: a node for one name of the blob
bus1_peer_name_new(p, name, id) == [peer |-> p, name |-> name, id |-> id]

\* the name-allocation loop of bus1_peer_connect_new: parse the blob into
\* nodes, each new node put at the head of the list
RECURSIVE ParseNames(_, _, _, _, _)
ParseNames(p, remaining, acc, id, oom) ==
    IF Len(remaining) = 0 THEN [r |-> 0, names |-> acc]
    ELSE LET n == strnlen(remaining)
         IN  IF n = 0 \/ n = Len(remaining) THEN [r |-> -EMSGSIZE, names |-> acc]
             ELSE IF n + 1 < 2 \/ n + 1 > BUS1_NAME_MAX_SIZE
                  THEN [r |-> -EMSGSIZE, names |-> acc]
             ELSE IF oom = "name" THEN [r |-> -ENOMEM, names |-> acc]
             ELSE ParseNames(p, Rest(remaining, n),
                             <<bus1_peer_name_new(p, CStr(remaining), id)>> \o acc,
                             id + 1, oom)

\* bus1_peer_name_add: 0 and the node linked, or -EISNAM on an equal name
bus1_peer_name_add_r(tree, node) ==
    IF \E m \in tree : m.name = node.name THEN -EISNAM ELSE 0

bus1_peer_name_add(tree, node) ==
    IF bus1_peer_name_add_r(tree, node) < 0 THEN tree ELSE tree \cup {node}

\* variant: unlink whichever node carries the name
bus1_peer_name_remove_byname(tree, node) == {m \in tree : m.name # node.name}

\* bus1_peer_name_remove: unlink the node if it is linked
bus1_peer_name_remove(tree, node) == tree \ {node}

\* variant: the counter drops even for a node that was never linked
bus1_peer_name_remove_n_always(tree, node) == 1

\* the change of domain->n_names made by removing `node` from `tree`
bus1_peer_name_remove_n(tree, node) == IF node \in tree THEN 1 ELSE 0

\* variant: the names stay linked
RemoveAll_none(tree, nl) == tree

\* bus1_peer_name_remove on every node of the list nl, head first
RECURSIVE RemoveAll(_, _)
RemoveAll(tree, nl) ==
    IF nl = <<>> THEN tree
    ELSE RemoveAll(bus1_peer_name_remove(tree, Head(nl)), Tail(nl))

RECURSIVE RemoveAllN(_, _)
RemoveAllN(tree, nl) ==
    IF nl = <<>> THEN 0
    ELSE bus1_peer_name_remove_n(tree, Head(nl))
         + RemoveAllN(bus1_peer_name_remove(tree, Head(nl)), Tail(nl))

\* bus1_peer_name_check: is `name` a name of the peer
bus1_peer_name_check(nl, name) ==
    IF \E i \in 1..Len(nl) : nl[i].name = name
    THEN LET i == CHOOSE i \in 1..Len(nl) :
                      nl[i].name = name /\ \A j \in 1..(i - 1) : nl[j].name # name
         IN  IF i < Len(nl) THEN 0 ELSE i
    ELSE -EREMCHG

RECURSIVE NamesCheckLoop(_, _, _, _)
NamesCheckLoop(nl, remaining, n_names_new, n_names_old) ==
    IF Len(remaining) = 0
    THEN IF n_names_new # n_names_old THEN -EREMCHG ELSE 0
    ELSE LET n == strnlen(remaining)
             r == bus1_peer_name_check(nl, CStr(remaining))
         IN  IF n = 0 \/ n = Len(remaining) THEN -EMSGSIZE
             ELSE IF r < 0 THEN r
             ELSE NamesCheckLoop(nl, Rest(remaining, n), n_names_new + 1,
                                 IF r > 0 THEN r ELSE n_names_old)

\* bus1_peer_names_check: does the blob hold exactly the names of the peer
bus1_peer_names_check(nl, blob) ==
    IF Len(blob) = 0 /\ nl # <<>> THEN -EREMCHG
    ELSE NamesCheckLoop(nl, blob, 0, 0)

\* bus1_peer_info_new: validation of the pool size and allocation
bus1_peer_info_new(pool_size, oom) ==
    IF pool_size = 0 \/ pool_size % PAGE_SIZE # 0 THEN -EINVAL
    ELSE IF oom = "info" THEN -ENOMEM
    ELSE 0


\* the locals of a thread that is in no call
DefaultLoc ==
    [op |-> "none", peer |-> 0, r |-> 0,
     uid |-> NoUser, names |-> <<>>, k |-> 0, peer_info |-> FALSE,
     key |-> <<>>, seq |-> 0, n |-> NoNode, n_state |-> "none", n_pub |-> FALSE,
     owner0 |-> 0, idx |-> {}, cnt |-> 0, tries |-> 0,
     dests |-> <<>>, i |-> 0, done |-> 0, msg |-> NoMsg, n_fds |-> 0,
     res |-> 0, rel |-> 0, ins |-> 0]

\* no call returned in the last step
NoRet ==
    [op |-> "none", peer |-> 0, r |-> 0, out |-> 0, flags |-> {}, fault |-> FALSE,
     key |-> <<>>, n |-> NoNode, n_state |-> "none", n_pub |-> FALSE, owner0 |-> 0,
     path |-> "", pool |-> 0, names |-> <<>>, tries |-> 0,
     dests |-> <<>>, msg |-> NoMsg, rep |-> <<>>, peek |-> FALSE, wfail |-> FALSE,
     res |-> 0, rel |-> 0, ins |-> 0]

\* no peer_info object, and the snapshot of a peer that never began a CONNECT
NoObj == [st |-> "none", pool_size |-> 0, user |-> NoUser]
NoSnap == [taken |-> FALSE, map |-> {}, n_names |-> 0, list |-> <<>>,
           n_peers |-> 0, users |-> [u \in UIDs |-> 0], dirty |-> FALSE]

\* ------------------------------------------------------------- helpers
\* the call of thread t returns to user space with the record rec
Return(t, rec) ==
    /\ pc' = [pc EXCEPT ![t] = "idle"]
    /\ loc' = [loc EXCEPT ![t] = DefaultLoc]
    /\ ret' = rec

\* thread t moves on to `label` with the locals l
Goto(t, label, l) ==
    /\ pc' = [pc EXCEPT ![t] = label]
    /\ loc' = [loc EXCEPT ![t] = l]
    /\ ret' = NoRet

Ret(t, op, r) == Return(t, [NoRet EXCEPT !.op = op, !.r = r])

\* variant: the peer stays linked
RemovePeer_keep(l, p) == l

\* list_del_init(&peer->link_domain)
RemovePeer(l, p) == SelectSeq(l, LAMBDA q : q # p)

\* history: another peer changed the domain since p's CONNECT began
MarkDirty(q) ==
    [p \in Peers |-> IF p # q /\ snap[p].taken
                     THEN [NoSnap EXCEPT !.taken = TRUE, !.dirty = TRUE]
                     ELSE snap[p]]

TakeSnap(p) ==
    [MarkDirty(p) EXCEPT ![p] = [taken |-> TRUE, map |-> map_names, n_names |-> n_names,
                                 list |-> list_peers, n_peers |-> n_peers,
                                 users |-> users, dirty |-> dlock # NoOwner]]

\* number of mode flags set in param->flags
ModeCount(flags) == Cardinality(flags \cap {"PEER", "MONITOR", "RESET"})

\* the flag checks of bus1_peer_ioctl_connect: known flags, at most one mode
ValidFlags(flags) == flags \subseteq ConnectFlags /\ ModeCount(flags) <= 1

\* variant: the flush leaves the staged nodes linked
bus1_peer_info_reset_staged(q) == SelectSeq(q, LAMBDA n : ~n.committed)

\* variant: the flush leaves the queue as it is
bus1_peer_info_reset_none(q) == q

\* bus1_peer_info_reset: every node is unlinked from the queue; the committed
\* messages are deallocated and freed, the staged ones stay with their
\* transaction
bus1_peer_info_reset(q) == <<>>

\* bus1_pool_flush: every slice is released
bus1_pool_flush(sl) == {}

\* what bus1_peer_info_reset on the info of peer p does beside the queue, if
\* it runs
FlushRest(p, runs) ==
    /\ runs => ilock[p] = NoOwner
    /\ slices' = [slices EXCEPT ![p] = IF runs THEN bus1_pool_flush(@) ELSE @]
    /\ flushed' = [flushed EXCEPT ![p] =
                      IF runs THEN @ \cup {queue[p][i].id : i \in 1..Len(queue[p])} ELSE @]
    /\ peeked' = [peeked EXCEPT ![p] = IF runs THEN <<>> ELSE @]
    /\ UNCHANGED <<nmsg, log, taken, ilock>>

\* the threads that hold peer->rwlock of p for reading: those inside
\* SLICE_RELEASE, SEND or RECV on p
Readers(p) ==
    {t \in Threads : loc[t].peer = p /\ loc[t].op \in {"SLICE_RELEASE", "SEND", "RECV"}}

\* down_write(&peer->rwlock) can proceed
WriteLockFree(p) == rwlock[p] = NoOwner /\ Readers(p) = {}

\* ------------------------------------------------------------- CONNECT
\* bus1_peer_ioctl (CONNECT) up to down_write: pin the domain, validate flags
ConnectCheck(flags, cap) ==
    IF ~dom_active THEN -ESHUTDOWN
    ELSE IF ~ValidFlags(flags) THEN -EINVAL
    ELSE IF ~cap THEN -EPERM
    ELSE 0

\* a CONNECT call begins on peer p; it returns the error of the early checks,
\* or goes on to wait for the peer lock
ConnectCall(t, p) ==
    /\ pc[t] = "idle"
    /\ calls < MaxCalls
    /\ calls' = calls + 1
    /\ \E r \in {ConnectCheck(flags, cap) : flags \in FlagSets, cap \in BOOLEAN} :
          IF r < 0 THEN
               /\ Ret(t, "CONNECT", r)
               /\ UNCHANGED dom_refs
          ELSE /\ Goto(t, "c_lock", [DefaultLoc EXCEPT !.op = "CONNECT", !.peer = p])
               /\ dom_refs' = dom_refs + 1
    /\ UNCHANGED <<peerVars, domVars, dom_active, dpc, dset, ioVars, histVars>>

\* the already-connected branch of bus1_peer_connect_new
ConnectAgain(p, pool, blob) ==
    IF ~info[p] THEN -ESHUTDOWN
    ELSE IF pool # obj[p].pool_size THEN -EREMCHG
    ELSE IF bus1_peer_names_check(names[p], blob) < 0
         THEN bus1_peer_names_check(names[p], blob)
    ELSE -EISCONN

\* variant: the handler is selected without a look at the active-ref
ConnectMode_unchecked(p, fl) ==
    IF fl \cap {"PEER", "MONITOR"} # {} THEN "new"
    ELSE IF "RESET" \in fl THEN "reset"
    ELSE IF "QUERY" \in fl THEN "query"
    ELSE "none"

\* the handler bus1_peer_ioctl_connect selects under the peer lock
ConnectMode(p, fl) ==
    IF bus1_active_is_deactivated(active[p]) THEN "shutdown"
    ELSE IF fl \cap {"PEER", "MONITOR"} # {} THEN "new"
    ELSE IF "RESET" \in fl THEN "reset"
    ELSE IF "QUERY" \in fl THEN "query"
    ELSE "none"

\* the end of bus1_peer_ioctl_connect for a handler that returned r without
\* waiting: up_write, the copy-back for QUERY, bus1_domain_release
ConnectReturn(t, fl, r, o, fault) ==
    LET copy == r >= 0 /\ "QUERY" \in fl IN
    /\ Return(t, [NoRet EXCEPT
                   !.op = "CONNECT", !.peer = loc[t].peer,
                   !.r = IF copy /\ fault THEN -EFAULT ELSE r,
                   !.out = IF copy /\ ~fault THEN o ELSE 0,
                   !.flags = IF copy THEN {"QUERY"} ELSE {},
                   !.fault = copy /\ fault])
    /\ dom_refs' = dom_refs - 1

\* down_write; the peer was already disconnected, or no mode was given
ConnectRefuse(t) ==
    LET p == loc[t].peer IN
    /\ pc[t] = "c_lock"
    /\ WriteLockFree(p)
    /\ \E mode \in {ConnectMode(p, fl) : fl \in ValidFlagSets} :
       /\ mode \in {"shutdown", "none"}
       /\ ConnectReturn(t, {}, IF mode = "shutdown" THEN -ESHUTDOWN ELSE -EINVAL,
                        0, FALSE)
    /\ UNCHANGED <<peerVars, domVars, dom_active, dpc, dset, ioVars, histVars>>
    /\ UNCHANGED calls

\* down_write; bus1_peer_connect_new on a peer that is already connected
ConnectExisting(t) ==
    LET p == loc[t].peer IN
    /\ pc[t] = "c_lock"
    /\ WriteLockFree(p)
    /\ ~bus1_active_is_new(active[p])
    /\ \E fl \in ValidFlagSets : ConnectMode(p, fl) = "new"
    /\ \E pool \in PoolSizes, blob \in Blobs :
          /\ Return(t, [NoRet EXCEPT !.op = "CONNECT", !.peer = p, !.path = "again",
                                     !.r = ConnectAgain(p, pool, blob),
                                     !.pool = pool, !.names = blob])
          /\ dom_refs' = dom_refs - 1
    /\ UNCHANGED <<peerVars, domVars, dom_active, dpc, dset, ioVars, histVars>>
    /\ UNCHANGED calls

\* the part of bus1_peer_connect_new on a NEW peer that precedes mutex_lock:
\* the error it ends with, or 0 and the list of nodes
ConnectPrepare(p, pool, blob, oom) ==
    IF info[p] THEN [r |-> -EISCONN, names |-> <<>>]
    ELSE IF bus1_peer_info_new(pool, oom) < 0
         THEN [r |-> bus1_peer_info_new(pool, oom), names |-> <<>>]
    ELSE IF oom = "user" THEN [r |-> -ENOMEM, names |-> <<>>]
    ELSE ParseNames(p, blob, <<>>, 1, oom)

\* down_write; bus1_peer_connect_new on a NEW peer up to its wait for the
\* domain mutex, or to its return when the preparation fails (the user, if
\* acquired, is released again on that path)
ConnectNew(t) ==
    LET p == loc[t].peer IN
    /\ pc[t] = "c_lock"
    /\ WriteLockFree(p)
    /\ bus1_active_is_new(active[p])
    /\ \E fl \in ValidFlagSets : ConnectMode(p, fl) = "new"
    /\ \E uid \in UIDs,
          prep \in {ConnectPrepare(p, pool, blob, oom) :
                       pool \in PoolSizes, blob \in Blobs, oom \in OomPoints} :
          /\ IF prep.r < 0 THEN
                  /\ ConnectReturn(t, {}, prep.r, 0, FALSE)
                  /\ UNCHANGED <<rwlock, users, snap>>
             ELSE /\ rwlock' = [rwlock EXCEPT ![p] = t]
                  /\ Goto(t, "c_dlock", [loc[t] EXCEPT !.names = prep.names,
                                                       !.uid = uid, !.peer_info = TRUE])
                  /\ users' = [users EXCEPT ![uid] = @ + 1]
                  /\ snap' = TakeSnap(p)
                  /\ UNCHANGED dom_refs
    /\ UNCHANGED <<active, acount, info, obj, names, dlock, seqcount, map_names, n_names,
                   list_peers, n_peers, dom_active, dpc, dset, ioVars, n_cleanup, n_free, n_disc>>
    /\ UNCHANGED calls

\* variant: the handler leaves the pool size of the request in the parameter
ReportedPoolSize_request(o, pool) == pool

\* param->pool_size = peer_info->pool.size: what RESET and QUERY leave in the
\* parameter of a request that came with the pool size `pool`
ReportedPoolSize(o, pool) == o.pool_size

\* bus1_peer_connect_reset
ConnectReset(p, pool, blob) ==
    IF bus1_active_is_new(active[p]) THEN -ENOTCONN
    ELSE IF pool # 0 \/ Len(blob) > 0 THEN -EINVAL
    ELSE IF ~info[p] THEN -ESHUTDOWN
    ELSE 0

\* down_write; bus1_peer_connect_reset; up_write
ConnectResetCall(t) ==
    LET p == loc[t].peer IN
    /\ pc[t] = "c_lock"
    /\ WriteLockFree(p)
    /\ \E fl \in ValidFlagSets : ConnectMode(p, fl) = "reset"
    /\ \E pool \in {0, PAGE_SIZE}, blob \in {<<>>, <<1, 0>>},
          fl \in {{"RESET"}, {"RESET", "QUERY"}}, fault \in BOOLEAN :
       LET r == ConnectReset(p, pool, blob)
           copy == r >= 0 /\ "QUERY" \in fl
       IN
       /\ Return(t, [NoRet EXCEPT
                      !.op = "CONNECT", !.peer = p, !.path = "reset",
                      !.pool = pool, !.names = blob, !.n_state = active[p],
                      !.r = IF copy /\ fault THEN -EFAULT ELSE r,
                      !.out = IF copy /\ ~fault THEN ReportedPoolSize(obj[p], pool) ELSE 0,
                      !.flags = IF copy THEN {"QUERY"} ELSE {},
                      !.fault = copy /\ fault])
       /\ dom_refs' = dom_refs - 1
       /\ queue' = [queue EXCEPT ![p] = IF r < 0 THEN @ ELSE bus1_peer_info_reset(@)]
       /\ FlushRest(p, r >= 0)
    /\ UNCHANGED <<peerVars, domVars, dom_active, dpc, dset, histVars>>
    /\ UNCHANGED calls

\* bus1_peer_connect_query
ConnectQuery(p) ==
    IF bus1_active_is_new(active[p]) THEN -ENOTCONN
    ELSE IF ~info[p] THEN -ESHUTDOWN
    ELSE 0

\* down_write; bus1_peer_connect_query; up_write
ConnectQueryCall(t) ==
    LET p == loc[t].peer IN
    /\ pc[t] = "c_lock"
    /\ WriteLockFree(p)
    /\ \E fl \in ValidFlagSets : ConnectMode(p, fl) = "query"
    /\ \E pool \in PoolSizes, fault \in BOOLEAN :
       LET r == ConnectQuery(p) IN
       /\ Return(t, [NoRet EXCEPT
                      !.op = "CONNECT", !.peer = p, !.path = "query",
                      !.n_state = active[p],
                      !.r = IF r >= 0 /\ fault THEN -EFAULT ELSE r,
                      !.out = IF r >= 0 /\ ~fault THEN ReportedPoolSize(obj[p], pool) ELSE 0,
                      !.flags = IF r >= 0 THEN {"QUERY"} ELSE {},
                      !.fault = r >= 0 /\ fault])
       /\ dom_refs' = dom_refs - 1
    /\ UNCHANGED <<peerVars, domVars, dom_active, dpc, dset, ioVars, histVars>>
    /\ UNCHANGED calls

\* mutex_lock(&domain->lock); write_seqcount_begin(&domain->seqcount)
ConnectDomainLock(t) ==
    /\ pc[t] = "c_dlock"
    /\ dlock = NoOwner
    /\ dlock' = t
    /\ seqcount' = seqcount + 1
    /\ pc' = [pc EXCEPT ![t] = "c_add"]
    /\ loc' = [loc EXCEPT ![t].k = 1, ![t].idx = map_names, ![t].cnt = n_names]
    /\ UNCHANGED <<peerVars, map_names, n_names, list_peers, n_peers, users, domLife,
                   ioVars, histVars>>
    /\ UNCHANGED calls
    /\ ret' = NoRet

\* one round of the loop that links the names into the rb-tree
ConnectAdd(t) ==
    LET p == loc[t].peer
        node == loc[t].names[loc[t].k]
    IN
    /\ pc[t] = "c_add"
    /\ loc[t].k <= Len(loc[t].names)
    /\ IF bus1_peer_name_add_r(map_names, node) < 0 THEN
            /\ pc' = [pc EXCEPT ![t] = "c_unwind"]
            /\ loc' = [loc EXCEPT ![t].r = bus1_peer_name_add_r(map_names, node)]
            /\ UNCHANGED <<map_names, n_names, snap>>
       ELSE /\ map_names' = bus1_peer_name_add(map_names, node)
            /\ n_names' = n_names + 1
            /\ loc' = [loc EXCEPT ![t].k = @ + 1]
            /\ snap' = MarkDirty(p)
            /\ UNCHANGED pc
    /\ UNCHANGED <<peerVars, dlock, seqcount, list_peers, n_peers, users, domLife,
                   ioVars, n_cleanup, n_free, n_disc>>
    /\ UNCHANGED calls
    /\ ret' = NoRet

\* the success path: publish names, link the peer, install info, activate,
\* write_seqcount_end, mutex_unlock; then up_write, the copy-back for QUERY and
\* bus1_domain_release. The pool size and the QUERY flag of the request, private
\* to the call so far, are drawn here, where they first take effect.
ConnectPublish(t) ==
    LET p == loc[t].peer IN
    /\ pc[t] = "c_add"
    /\ loc[t].k > Len(loc[t].names)
    /\ names' = [names EXCEPT ![p] = loc[t].names]
    /\ list_peers' = <<p>> \o list_peers
    /\ n_peers' = n_peers + 1
    /\ info' = [info EXCEPT ![p] = TRUE]
    /\ active' = [active EXCEPT ![p] = bus1_active_activate(@)]
    /\ seqcount' = seqcount + 1
    /\ dlock' = NoOwner
    /\ rwlock' = [rwlock EXCEPT ![p] = NoOwner]
    /\ \E pool \in {x \in PoolSizes : bus1_peer_info_new(x, "none") = 0},
          fl \in {{}, {"QUERY"}}, fault \in BOOLEAN :
          /\ obj' = [obj EXCEPT ![p] = [st |-> "live", pool_size |-> pool,
                                        user |-> loc[t].uid]]
          /\ Return(t, [NoRet EXCEPT
                         !.op = "CONNECT", !.peer = p,
                         !.r = IF fl # {} /\ fault THEN -EFAULT ELSE 0,
                         !.out = IF fl # {} /\ ~fault THEN pool ELSE 0,
                         !.flags = fl, !.fault = fl # {} /\ fault])
    /\ dom_refs' = dom_refs - 1
    /\ snap' = MarkDirty(p)
    /\ UNCHANGED <<acount, map_names, n_names, users, dom_active, dpc, dset, ioVars,
                   n_cleanup, n_free, n_disc>>
    /\ UNCHANGED calls

\* error_unlock: unlink every name of the local list
ConnectUnwind(t) ==
    LET p == loc[t].peer IN
    /\ pc[t] = "c_unwind"
    /\ map_names' = RemoveAll(map_names, loc[t].names)
    /\ n_names' = n_names - RemoveAllN(map_names, loc[t].names)
    /\ pc' = [pc EXCEPT ![t] = "c_unwound"]
    /\ snap' = MarkDirty(p)
    /\ UNCHANGED <<peerVars, dlock, seqcount, list_peers, n_peers, users, domLife,
                   loc, ioVars, n_cleanup, n_free, n_disc>>
    /\ UNCHANGED calls
    /\ ret' = NoRet

\* write_seqcount_end, mutex_unlock, then error: free the names, release the
\* user, free the peer_info; then up_write and bus1_domain_release
ConnectError(t) ==
    LET p == loc[t].peer IN
    /\ pc[t] = "c_unwound"
    /\ seqcount' = seqcount + 1
    /\ dlock' = NoOwner
    /\ rwlock' = [rwlock EXCEPT ![p] = NoOwner]
    /\ users' = [users EXCEPT ![loc[t].uid] = @ - 1]
    /\ Return(t, [NoRet EXCEPT !.op = "CONNECT", !.peer = p, !.r = loc[t].r])
    /\ dom_refs' = dom_refs - 1
    /\ snap' = MarkDirty(p)
    /\ UNCHANGED <<active, acount, info, obj, names, map_names, n_names, list_peers,
                   n_peers, dom_active, dpc, dset, ioVars, n_cleanup, n_free, n_disc>>
    /\ UNCHANGED calls


\* ---------------------------------------------------------- DISCONNECT
\* bus1_peer_ioctl (DISCONNECT): the argument must be zero
DisconnectCall(t, p) ==
    /\ pc[t] = "idle"
    /\ calls < MaxCalls
    /\ calls' = calls + 1
    /\ \E arg \in {0, 1} :
          IF arg # 0 THEN Ret(t, "DISCONNECT", -EINVAL)
          ELSE Goto(t, "t_lock", [DefaultLoc EXCEPT !.op = "DISCONNECT", !.peer = p])
    /\ UNCHANGED <<peerVars, domVars, domLife, ioVars, histVars>>

\* bus1_peer_teardown: down_write(&peer->rwlock); bus1_active_deactivate
TeardownLock(t) ==
    LET p == loc[t].peer IN
    /\ pc[t] = "t_lock"
    /\ WriteLockFree(p)
    /\ rwlock' = [rwlock EXCEPT ![p] = t]
    /\ active' = [active EXCEPT ![p] = bus1_active_deactivate(@)]
    /\ pc' = [pc EXCEPT ![t] = "t_drain"]
    /\ UNCHANGED <<acount, info, obj, names, domVars, domLife, loc, ioVars, histVars>>
    /\ UNCHANGED calls
    /\ ret' = NoRet

\* bus1_active_drain: wait for the references in flight
TeardownDrain(t) ==
    LET p == loc[t].peer IN
    /\ pc[t] = "t_drain"
    /\ bus1_active_drain(acount[p])
    /\ pc' = [pc EXCEPT ![t] = "t_dlock"]
    /\ UNCHANGED <<peerVars, domVars, domLife, loc, ioVars, histVars>>
    /\ UNCHANGED calls
    /\ ret' = NoRet

\* mutex_lock(&domain->lock); write_seqcount_begin(&domain->seqcount)
TeardownDomainLock(t) ==
    /\ pc[t] = "t_dlock"
    /\ dlock = NoOwner
    /\ dlock' = t
    /\ seqcount' = seqcount + 1
    /\ pc' = [pc EXCEPT ![t] = "t_cleanup"]
    /\ UNCHANGED <<peerVars, map_names, n_names, list_peers, n_peers, users, domLife,
                   loc, ioVars, histVars>>
    /\ UNCHANGED calls
    /\ ret' = NoRet

\* bus1_peer_cleanup, the callback of bus1_active_cleanup: the state of the
\* peer and the domain after it has run on peer p
bus1_peer_cleanup(p) ==
    IF ~info[p]
    THEN [map |-> map_names, n_names |-> n_names, names |-> names[p],
          user |-> obj[p].user, users |-> users, list |-> list_peers,
          n_peers |-> n_peers, ran |-> 0]
    ELSE [map |-> RemoveAll(map_names, names[p]),
          n_names |-> n_names - RemoveAllN(map_names, names[p]),
          names |-> <<>>,
          user |-> NoUser,
          users |-> IF obj[p].user \in UIDs
                    THEN [users EXCEPT ![obj[p].user] = @ - 1] ELSE users,
          list |-> RemovePeer(list_peers, p),
          n_peers |-> n_peers - 1,
          ran |-> 1]

\* variant: the pointer is left in place
TakeInfo_leave(p) == info

\* rcu_assign_pointer(peer->info, NULL) once the old pointer has been read
TakeInfo(p) == [info EXCEPT ![p] = FALSE]

\* variant: the object is never freed
bus1_peer_info_free_skip(p, peer_info, o) ==
    [obj |-> o, queue |-> queue[p], freed |-> 0]

\* bus1_peer_info_free(peer_info) for the info of peer p, peer_info telling
\* whether the pointer is non-NULL: the object, its queue, and whether it was
\* freed
bus1_peer_info_free(p, peer_info, o) ==
    IF ~peer_info THEN [obj |-> o, queue |-> queue[p], freed |-> 0]
    ELSE [obj |-> [o EXCEPT !.st = "freed"],
          queue |-> bus1_peer_info_reset(queue[p]), freed |-> 1]

\* the effect of a bus1_active_cleanup that fires on peer p, with the callback
\* (the peer_info object is left to the caller)
ApplyCleanup(p) ==
    LET c == bus1_peer_cleanup(p) IN
    /\ map_names' = c.map
    /\ n_names' = c.n_names
    /\ names' = [names EXCEPT ![p] = c.names]
    /\ users' = c.users
    /\ list_peers' = c.list
    /\ n_peers' = c.n_peers
    /\ n_cleanup' = [n_cleanup EXCEPT ![p] = @ + c.ran]
    /\ active' = [active EXCEPT ![p] = "DEAD"]
    /\ snap' = IF c.ran = 1 THEN MarkDirty(p) ELSE snap

\* variant: the teardown returns with the rwlock still held
UpWrite_held(l, p) == l

\* up_write(&peer->rwlock) at the end of bus1_peer_teardown
UpWrite(l, p) == [l EXCEPT ![p] = NoOwner]

\* variant: the teardown reports success whether or not the cleanup fired
TeardownResult_ok(fired) == 0

\* the value bus1_peer_teardown returns: 0 if its bus1_active_cleanup fired
TeardownResult(fired) == IF fired THEN 0 ELSE -ESHUTDOWN

\* bus1_active_cleanup under the domain lock; on success take peer->info and
\* clear it; then write_seqcount_end, mutex_unlock, up_write
TeardownCleanup(t) ==
    LET p == loc[t].peer IN
    /\ pc[t] = "t_cleanup"
    /\ IF bus1_active_cleanup(active[p], acount[p]) THEN
            /\ ApplyCleanup(p)
            /\ obj' = [obj EXCEPT ![p].user = bus1_peer_cleanup(p).user]
            /\ info' = TakeInfo(p)
            /\ loc' = [loc EXCEPT ![t].peer_info = info[p], ![t].r = TeardownResult(TRUE)]
       ELSE /\ loc' = [loc EXCEPT ![t].r = TeardownResult(FALSE)]
            /\ UNCHANGED <<map_names, n_names, names, obj, users, list_peers, n_peers,
                           n_cleanup, active, snap, info>>
    /\ seqcount' = seqcount + 1
    /\ dlock' = NoOwner
    /\ rwlock' = UpWrite(rwlock, p)
    /\ pc' = [pc EXCEPT ![t] = "t_free"]
    /\ UNCHANGED <<acount, domLife, ioVars, n_free, n_disc>>
    /\ UNCHANGED calls
    /\ ret' = NoRet

\* if (peer_info) bus1_peer_info_free(peer_info); return r
TeardownFree(t) ==
    LET p == loc[t].peer IN
    /\ pc[t] = "t_free"
    /\ LET f == bus1_peer_info_free(p, loc[t].peer_info, obj[p]) IN
          /\ obj' = [obj EXCEPT ![p] = f.obj]
          /\ queue' = [queue EXCEPT ![p] = f.queue]
          /\ FlushRest(p, f.freed = 1)
          /\ n_free' = [n_free EXCEPT ![p] = @ + f.freed]
    /\ n_disc' = [n_disc EXCEPT ![p] = IF loc[t].r = 0 THEN @ + 1 ELSE @]
    /\ Return(t, [NoRet EXCEPT !.op = "DISCONNECT", !.peer = p, !.r = loc[t].r])
    /\ UNCHANGED <<active, acount, rwlock, info, names, domVars, domLife, n_cleanup, snap>>
    /\ UNCHANGED calls

\* ------------------------------------------------------ domain teardown
\* the domain deactivates itself: CONNECT and RESOLVE can no longer pin it
DomainDeactivate ==
    /\ dpc = "idle"
    /\ calls < MaxCalls
    /\ calls' = calls + 1
    /\ dom_active' = FALSE
    /\ dpc' = "drain"
    /\ UNCHANGED <<peerVars, domVars, dom_refs, dset, pc, loc, ioVars, histVars>>
    /\ ret' = NoRet

\* once the domain is drained, it deactivates every peer linked to it
DomainDeactivatePeers ==
    /\ dpc = "drain"
    /\ dom_refs = 0
    /\ dset' = {list_peers[i] : i \in 1..Len(list_peers)}
    /\ active' = [p \in Peers |-> IF \E i \in 1..Len(list_peers) : list_peers[i] = p
                                  THEN bus1_active_deactivate(active[p]) ELSE active[p]]
    /\ dpc' = "peers"
    /\ UNCHANGED <<acount, rwlock, info, obj, names, domVars, dom_active, dom_refs,
                   pc, loc, ioVars, histVars>>
    /\ UNCHANGED calls
    /\ ret' = NoRet

\* the peers are drained; the domain takes its lock and seqcount
DomainLock ==
    /\ dpc = "peers"
    /\ \A p \in dset : bus1_active_drain(acount[p])
    /\ dlock = NoOwner
    /\ dlock' = DomainOwner
    /\ seqcount' = seqcount + 1
    /\ dpc' = "teardown"
    /\ UNCHANGED <<peerVars, map_names, n_names, list_peers, n_peers, users, dom_active,
                   dom_refs, dset, pc, loc, ioVars, histVars>>
    /\ UNCHANGED calls
    /\ ret' = NoRet

\* bus1_peer_teardown_domain(peer, domain)
TeardownDomain(p) ==
    /\ dpc = "teardown"
    /\ dlock = DomainOwner
    /\ p \in dset
    /\ IF bus1_active_cleanup(active[p], acount[p]) THEN
            /\ ApplyCleanup(p)
            /\ info' = TakeInfo(p)
            /\ LET f == bus1_peer_info_free(p, info[p],
                                            [obj[p] EXCEPT !.user = bus1_peer_cleanup(p).user])
               IN  /\ obj' = [obj EXCEPT ![p] = f.obj]
                   /\ queue' = [queue EXCEPT ![p] = f.queue]
                   /\ FlushRest(p, f.freed = 1)
                   /\ n_free' = [n_free EXCEPT ![p] = @ + f.freed]
       ELSE UNCHANGED <<map_names, n_names, names, obj, users, list_peers, n_peers,
                        n_cleanup, active, snap, info, ioVars, n_free>>
    /\ UNCHANGED <<acount, rwlock, dlock, seqcount, domLife, pc, loc, n_disc>>
    /\ UNCHANGED calls
    /\ ret' = NoRet

\* the domain leaves the write section and drops its lock
DomainUnlock ==
    /\ dpc = "teardown"
    /\ \A p \in dset : active[p] = "DEAD"
    /\ seqcount' = seqcount + 1
    /\ dlock' = NoOwner
    /\ dpc' = "done"
    /\ UNCHANGED <<peerVars, map_names, n_names, list_peers, n_peers, users, dom_active,
                   dom_refs, dset, pc, loc, ioVars, histVars>>
    /\ UNCHANGED calls
    /\ ret' = NoRet

\* ----------------------------------------------- active references
\* the references on p held by others than the threads inside a call on p
OtherRefs(p) == acount[p] - Cardinality(Readers(p))

\* bus1_peer_acquire by another holder (a sender pinning its destination)
PeerAcquire(p) ==
    /\ bus1_active_is_active(active[p])
    /\ OtherRefs(p) < MaxRefs
    /\ calls < MaxCalls
    /\ calls' = calls + 1
    /\ acount' = [acount EXCEPT ![p] = @ + 1]
    /\ UNCHANGED <<active, rwlock, info, obj, names, domVars, domLife, pc, loc,
                   ioVars, histVars>>
    /\ ret' = NoRet

\* bus1_peer_release
PeerRelease(p) ==
    /\ OtherRefs(p) > 0
    /\ acount' = [acount EXCEPT ![p] = @ - 1]
    /\ UNCHANGED <<active, rwlock, info, obj, names, domVars, domLife, pc, loc,
                   ioVars, histVars>>
    /\ UNCHANGED calls
    /\ ret' = NoRet

\* -------------------------------------------------------------- RESOLVE
\* the peer that owns `key` as an ACTIVE peer, or 0
ActiveOwner(key) ==
    IF \E p \in Peers : /\ bus1_active_is_active(active[p])
                        /\ \E i \in 1..Len(names[p]) : names[p][i].name = key
    THEN CHOOSE p \in Peers : /\ bus1_active_is_active(active[p])
                              /\ \E i \in 1..Len(names[p]) : names[p][i].name = key
    ELSE 0

\* bus1_peer_ioctl (RESOLVE) and the checks of bus1_peer_ioctl_resolve, up to
\* raw_seqcount_begin
ResolveCheckParam(flags, id, blob) ==
    IF ~dom_active THEN [r |-> -ESHUTDOWN, key |-> <<>>]
    ELSE IF flags # 0 \/ id # 0 THEN [r |-> -EINVAL, key |-> <<>>]
    ELSE IF Len(blob) < 2 \/ Len(blob) > BUS1_NAME_MAX_SIZE
         THEN [r |-> -ENXIO, key |-> <<>>]
    ELSE IF blob[Len(blob)] # 0 THEN [r |-> -EINVAL, key |-> <<>>]
    ELSE [r |-> 0, key |-> CStr(blob)]

\* a RESOLVE call begins; it returns the error of the checks, or goes on to
\* the first walk with seq = raw_seqcount_begin(&domain->seqcount)
ResolveCall(t) ==
    /\ pc[t] = "idle"
    /\ calls < MaxCalls
    /\ calls' = calls + 1
    /\ \E c \in {ResolveCheckParam(flags, id, blob) :
                    flags \in {0, 1}, id \in {0, 1}, blob \in Blobs} :
          IF c.r < 0 THEN
               /\ Ret(t, "RESOLVE", c.r)
               /\ UNCHANGED dom_refs
          ELSE /\ Goto(t, "r_walk", [DefaultLoc EXCEPT
                              !.op = "RESOLVE", !.key = c.key,
                              !.seq = seqcount - (seqcount % 2),
                              !.owner0 = ActiveOwner(c.key)])
               /\ dom_refs' = dom_refs + 1
    /\ UNCHANGED <<peerVars, domVars, dom_active, dpc, dset, ioVars, histVars>>

\* the nodes an rcu walk of the tree for `key` can end on: the node of that
\* name if it is linked; NoNode if it is not, or if a writer is rebalancing
\* the tree while the walk runs
Lookup(tree, key, seq) ==
    {m \in tree : m.name = key}
    \cup (IF (\A m \in tree : m.name # key) \/ seq % 2 = 1 THEN {NoNode} ELSE {})

\* one walk of the name tree in the rcu read-side section
ResolveWalk(t) ==
    /\ pc[t] = "r_walk"
    /\ \E n \in Lookup(map_names, loc[t].key, seqcount) :
          loc' = [loc EXCEPT ![t].n = n,
                             ![t].n_state = IF n = NoNode THEN "none" ELSE active[n.peer],
                             ![t].n_pub = n # NoNode /\
                                   \E i \in 1..Len(names[n.peer]) : names[n.peer][i] = n]
    /\ pc' = [pc EXCEPT ![t] = "r_check"]
    /\ UNCHANGED <<peerVars, domVars, domLife, ioVars, histVars>>
    /\ UNCHANGED calls
    /\ ret' = NoRet

\* variant: a miss is never retried
ResolveRetry_never(n, seq, cur) == FALSE

\* should the walk be repeated: no node found and the seqcount has moved
ResolveRetry(n, seq, cur) == n = NoNode /\ cur # seq

\* the value bus1_peer_ioctl_resolve returns once the loop has ended
ResolveResult(n, fault) ==
    IF n = NoNode THEN -ENXIO
    ELSE IF fault THEN -EFAULT
    ELSE 0

\* the loop condition, and after the loop the result, put_user and
\* bus1_domain_release
ResolveCheck(t) ==
    /\ pc[t] = "r_check"
    /\ \E fault \in BOOLEAN :
          IF ResolveRetry(loc[t].n, loc[t].seq, seqcount) THEN
               /\ Goto(t, "r_begin", loc[t])
               /\ UNCHANGED dom_refs
          ELSE /\ Return(t, [NoRet EXCEPT
                              !.op = "RESOLVE", !.key = loc[t].key, !.n = loc[t].n,
                              !.n_state = loc[t].n_state, !.n_pub = loc[t].n_pub,
                              !.owner0 = loc[t].owner0, !.tries = loc[t].tries,
                              !.r = ResolveResult(loc[t].n, fault),
                              !.fault = loc[t].n # NoNode /\ fault])
               /\ dom_refs' = dom_refs - 1
    /\ UNCHANGED <<peerVars, domVars, dom_active, dpc, dset, ioVars, histVars>>
    /\ UNCHANGED calls

\* read_seqcount_begin: wait until no writer is in its section
ResolveBegin(t) ==
    /\ pc[t] = "r_begin"
    /\ seqcount % 2 = 0
    /\ loc' = [loc EXCEPT ![t].seq = seqcount, ![t].tries = @ + 1]
    /\ pc' = [pc EXCEPT ![t] = "r_walk"]
    /\ UNCHANGED <<peerVars, domVars, domLife, ioVars, histVars>>
    /\ UNCHANGED calls
    /\ ret' = NoRet


\* ------------------------------------------------ queue and pool (contracts)
\* bus1_queue_peek: the first committed message of the queue, or NoMsg
bus1_queue_peek(q) ==
    IF \E i \in 1..Len(q) : q[i].committed
    THEN q[CHOOSE i \in 1..Len(q) : q[i].committed /\ \A j \in 1..(i - 1) : ~q[j].committed]
    ELSE NoMsg

\* is the node of message id linked in the queue
bus1_queue_node_is_queued(q, id) == \E i \in 1..Len(q) : q[i].id = id

\* bus1_queue_remove: unlink the node of message id
bus1_queue_remove(q, id) == SelectSeq(q, LAMBDA n : n.id # id)

\* a transaction stages its message on the queue of a destination
bus1_queue_stage(q, m) == Append(q, [m EXCEPT !.committed = FALSE])

\* a transaction commits its staged message: the node moves behind every
\* message committed before it; a node the flush has unlinked is discarded
bus1_queue_commit(q, m) ==
    IF bus1_queue_node_is_queued(q, m.id)
    THEN Append(bus1_queue_remove(q, m.id), [m EXCEPT !.committed = TRUE])
    ELSE q

\* the slice a message occupies in the pool of its destination, held by the
\* kernel until the message is deallocated
bus1_pool_alloc(sl, m) ==
    sl \cup {[off |-> m.id, size |-> m.size, kern |-> TRUE, user |-> FALSE]}

\* bus1_pool_publish: the slice becomes visible to user space
bus1_pool_publish(sl, off) ==
    {IF x.off = off THEN [x EXCEPT !.user = TRUE] ELSE x : x \in sl}

\* bus1_message_deallocate_locked: the kernel drops its reference to the slice
bus1_message_deallocate_locked(sl, off) ==
    {[x EXCEPT !.kern = x.kern /\ x.off # off] : x \in {y \in sl : y.off # off \/ y.user}}

\* bus1_pool_release_user: user space drops its reference to the slice
bus1_pool_release_user_r(sl, off) ==
    IF \E x \in sl : x.off = off /\ x.user THEN 0 ELSE -ENXIO

bus1_pool_release_user(sl, off) ==
    {[x EXCEPT !.user = x.user /\ x.off # off] : x \in {y \in sl : y.off # off \/ y.kern}}

\* ------------------------------------------- SLICE_RELEASE, SEND and RECV
\* variant: the reference is handed out whatever the state of the peer
bus1_peer_acquire_any(a) == TRUE

\* bus1_peer_acquire: the active reference is handed out to an ACTIVE peer only
bus1_peer_acquire(a) == bus1_active_is_active(a)

\* the call of thread t returns: bus1_peer_release, up_read
IoReturn(t, rec) ==
    /\ Return(t, [rec EXCEPT !.op = loc[t].op, !.peer = loc[t].peer,
                             !.n_state = loc[t].n_state])
    /\ acount' = [acount EXCEPT ![loc[t].peer] = @ - 1]

\* bus1_peer_ioctl for the three commands: down_read and bus1_peer_acquire;
\* without the reference the call returns -ESHUTDOWN at once
IoRefused(t, p, op) ==
    /\ ~bus1_peer_acquire(active[p])
    /\ Return(t, [NoRet EXCEPT !.op = op, !.peer = p, !.r = -ESHUTDOWN,
                               !.n_state = active[p]])
    /\ UNCHANGED <<acount, ioVars>>

\* the locals of a call that got its reference
IoLoc(p, op) == [DefaultLoc EXCEPT !.op = op, !.peer = p, !.n_state = active[p]]

\* variant: the lock is kept
InfoUnlock_held(l, p) == l

\* mutex_unlock(&peer_info->lock)
InfoUnlock(l, p) == [l EXCEPT ![p] = NoOwner]

\* where a thread stands before mutex_lock(&peer_info->lock) with the section
\* ahead of it: in SLICE_RELEASE, in RECV with PEEK, in a round of the loop of
\* RECV
InfoLockPcs == {"x_release", "v_peek", "v_dequeue"}

\* mutex_lock(&peer_info->lock) by thread t
InfoLock(t) ==
    LET p == loc[t].peer IN
    /\ pc[t] \in InfoLockPcs
    /\ ilock[p] = NoOwner
    /\ ilock' = [ilock EXCEPT ![p] = t]
    /\ ret' = NoRet
    /\ UNCHANGED <<peerVars, domVars, domLife, histVars, pc, loc, calls,
                   queue, slices, nmsg, log, taken, flushed, peeked>>

\* SLICE_RELEASE begins: down_read, bus1_peer_acquire
SliceReleaseCall(t, p) ==
    /\ pc[t] = "idle"
    /\ calls < MaxIoCalls
    /\ calls' = calls + 1
    /\ rwlock[p] = NoOwner
    /\ \/ IoRefused(t, p, "SLICE_RELEASE")
       \/ /\ bus1_peer_acquire(active[p])
          /\ Goto(t, "x_release", IoLoc(p, "SLICE_RELEASE"))
          /\ acount' = [acount EXCEPT ![p] = @ + 1]
          /\ UNCHANGED ioVars
    /\ UNCHANGED <<active, rwlock, info, obj, names, domVars, domLife, histVars>>

\* bus1_peer_ioctl_slice_release: import the offset, bus1_pool_release_user
SliceRelease(t) ==
    LET p == loc[t].peer IN
    /\ pc[t] = "x_release"
    /\ \E fault \in BOOLEAN, offset \in 1..MaxMsgs :
          IF fault THEN
               /\ ilock[p] # t
               /\ IoReturn(t, [NoRet EXCEPT !.r = -EFAULT])
               /\ UNCHANGED <<slices, ilock>>
          ELSE /\ ilock[p] = t
               /\ IoReturn(t, [NoRet EXCEPT
                                 !.r = bus1_pool_release_user_r(slices[p], offset)])
               /\ slices' = [slices EXCEPT ![p] = bus1_pool_release_user(@, offset)]
               /\ ilock' = InfoUnlock(ilock, p)
    /\ UNCHANGED <<active, rwlock, info, obj, names, domVars, domLife, histVars,
                   queue, nmsg, log, taken, flushed, peeked>>
    /\ UNCHANGED calls

\* the checks of bus1_peer_ioctl_send and bus1_transaction_new_from_user
SendCheck(fault, flags_ok, size_ok, ptr_ok, oom) ==
    IF fault THEN -EFAULT
    ELSE IF ~flags_ok THEN -EINVAL
    ELSE IF ~size_ok THEN -EMSGSIZE
    ELSE IF ~ptr_ok THEN -EFAULT
    ELSE IF oom THEN -ENOMEM
    ELSE 0

\* SEND begins: down_read, bus1_peer_acquire, the checks, the transaction
SendCall(t, p) ==
    /\ pc[t] = "idle"
    /\ calls < MaxIoCalls
    /\ calls' = calls + 1
    /\ rwlock[p] = NoOwner
    /\ \/ /\ IoRefused(t, p, "SEND")
       \/ /\ bus1_peer_acquire(active[p])
          /\ \E r \in {SendCheck(f, fl, sz, pt, oom) : f \in BOOLEAN, fl \in BOOLEAN,
                          sz \in BOOLEAN, pt \in BOOLEAN, oom \in BOOLEAN} :
                IF r < 0 THEN
                     /\ Return(t, [NoRet EXCEPT !.op = "SEND", !.peer = p, !.r = r,
                                                !.n_state = active[p]])
                     /\ UNCHANGED <<acount, nmsg>>
                ELSE /\ nmsg < MaxMsgs
                     /\ \E d \in DestLists, nf \in MsgFiles :
                           Goto(t, "s_dest",
                                [IoLoc(p, "SEND") EXCEPT
                                   !.dests = d, !.i = 1, !.done = 0,
                                   !.msg = [id |-> nmsg + 1, n_files |-> nf,
                                            size |-> 8 + 4 * nf, committed |-> FALSE]])
                     /\ acount' = [acount EXCEPT ![p] = @ + 1]
                     /\ nmsg' = nmsg + 1
          /\ UNCHANGED <<queue, slices, log, taken, flushed, peeked, ilock>>
    /\ UNCHANGED <<active, rwlock, info, obj, names, domVars, domLife, histVars>>

\* can the transaction reach the destination: it is the id of an ACTIVE peer
DestinationOk(d) == d \in Peers /\ bus1_active_is_active(active[d])

\* what instantiating or committing the transaction for destination d can
\* return: 0, or the error of an unknown destination or of a failed allocation
InstantiateResults(d) == IF DestinationOk(d) THEN {0, -ENOMEM} ELSE {-ENXIO}

\* bus1_transaction_free of a transaction that was not committed: its staged
\* messages are unlinked and their slices released
Rollback(m) ==
    /\ queue' = [q \in Peers |-> bus1_queue_remove(queue[q], m.id)]
    /\ slices' = [q \in Peers |->
                    IF bus1_queue_node_is_queued(queue[q], m.id)
                    THEN bus1_message_deallocate_locked(slices[q], m.id)
                    ELSE slices[q]]

\* the unicast path of bus1_peer_ioctl_send: get_user,
\* bus1_transaction_commit_for_id, bus1_transaction_free
SendUnicast(t) ==
    LET d == loc[t].dests[1]
        m == loc[t].msg
    IN
    /\ pc[t] = "s_dest"
    /\ Len(loc[t].dests) = 1
    /\ \E r \in {-EFAULT} \cup InstantiateResults(d) :
          /\ IoReturn(t, [NoRet EXCEPT !.r = r, !.dests = loc[t].dests, !.msg = m])
          /\ IF r < 0 THEN UNCHANGED <<queue, slices, log>>
             ELSE /\ queue' = [queue EXCEPT ![d] = Append(@, [m EXCEPT !.committed = TRUE])]
                  /\ slices' = [slices EXCEPT ![d] = bus1_pool_alloc(@, m)]
                  /\ log' = [log EXCEPT ![d] = Append(@, m.id)]
    /\ UNCHANGED <<active, rwlock, info, obj, names, domVars, domLife, histVars,
                   nmsg, taken, flushed, peeked, ilock>>
    /\ UNCHANGED calls

\* variant: a failed destination is skipped and the loop goes on
SendAbort_skip(r) == FALSE

\* does the loop over the destinations end on the result r of one of them
SendAbort(r) == r < 0

\* one round of the loop of the multicast path: get_user and
\* bus1_transaction_instantiate_for_id; on a failure the call ends with
\* bus1_transaction_free
SendInstantiate(t) ==
    LET i == loc[t].i
        d == loc[t].dests[i]
        m == loc[t].msg
    IN
    /\ pc[t] = "s_dest"
    /\ Len(loc[t].dests) # 1
    /\ i <= Len(loc[t].dests)
    /\ \E r \in {-EFAULT} \cup InstantiateResults(d) :
          IF SendAbort(r) THEN
               /\ IoReturn(t, [NoRet EXCEPT !.r = r, !.dests = loc[t].dests, !.msg = m])
               /\ Rollback(m)
          ELSE /\ Goto(t, "s_dest", [loc[t] EXCEPT !.i = i + 1])
               /\ IF r = 0
                  THEN /\ queue' = [queue EXCEPT ![d] = bus1_queue_stage(@, m)]
                       /\ slices' = [slices EXCEPT ![d] = bus1_pool_alloc(@, m)]
                  ELSE UNCHANGED <<queue, slices>>
               /\ UNCHANGED acount
    /\ UNCHANGED <<active, rwlock, info, obj, names, domVars, domLife, histVars,
                   nmsg, log, taken, flushed, peeked, ilock>>
    /\ UNCHANGED calls

\* bus1_transaction_commit, one destination at a time: the staged message is
\* committed, or it is discarded if the flush of the destination unlinked it;
\* after the last one bus1_transaction_free and the return of 0
SendCommit(t) ==
    LET n == Len(loc[t].dests)
        k == loc[t].done + 1
        m == loc[t].msg
    IN
    /\ pc[t] = "s_dest"
    /\ n # 1
    /\ loc[t].i > n
    /\ IF n = 0 THEN
            /\ IoReturn(t, [NoRet EXCEPT !.r = 0, !.dests = loc[t].dests, !.msg = m])
            /\ UNCHANGED <<queue, slices, log>>
       ELSE LET d == loc[t].dests[k]
                hit == d \in Peers /\ bus1_queue_node_is_queued(queue[d], m.id)
            IN
            /\ IF hit
               THEN /\ queue' = [queue EXCEPT ![d] = bus1_queue_commit(@, m)]
                    /\ log' = [log EXCEPT ![d] = Append(@, m.id)]
               ELSE UNCHANGED <<queue, log>>
            /\ UNCHANGED slices
            /\ IF k = n
               THEN IoReturn(t, [NoRet EXCEPT !.r = 0, !.dests = loc[t].dests, !.msg = m])
               ELSE /\ Goto(t, "s_dest", [loc[t] EXCEPT !.done = k])
                    /\ UNCHANGED acount
    /\ UNCHANGED <<active, rwlock, info, obj, names, domVars, domLife, histVars,
                   nmsg, taken, flushed, peeked, ilock>>
    /\ UNCHANGED calls

\* the checks of bus1_peer_ioctl_recv on the imported parameter
RecvCheck(fault, flags_ok, clean) ==
    IF fault THEN -EFAULT
    ELSE IF ~flags_ok \/ ~clean THEN -EINVAL
    ELSE 0

\* variant: a successful reservation stops one descriptor short
Reserve_short(n_fds, wanted) ==
    IF wanted <= n_fds THEN {[r |-> 0, n |-> n_fds]}
    ELSE {[r |-> 0, n |-> wanted - 1], [r |-> -ENOMEM, n |-> n_fds]}
         \cup {[r |-> -EMFILE, n |-> k] : k \in n_fds..(wanted - 1)}

\* the ways growing the reservation from n_fds to wanted descriptors can end:
\* krealloc fails, get_unused_fd_flags fails on some descriptor, or all are
\* reserved; r and the number of descriptors held afterwards
Reserve(n_fds, wanted) ==
    IF wanted <= n_fds THEN {[r |-> 0, n |-> n_fds]}
    ELSE {[r |-> 0, n |-> wanted], [r |-> -ENOMEM, n |-> n_fds]}
         \cup {[r |-> -EMFILE, n |-> k] : k \in n_fds..(wanted - 1)}

\* variant: the descriptors still reserved at the exit are kept
ExitRelease_none(n_fds) == 0

\* the exit path: put_unused_fd for every descriptor still reserved
ExitRelease(n_fds) == n_fds

\* the values RECV has written back once it returned r
RecvOut(r, m) == IF r >= 0 THEN <<m.id, m.size, m.n_files>> ELSE <<>>

\* the exit of bus1_peer_ioctl_recv with the result r and the locals l: the
\* copy-back, the release of the descriptors still reserved, the return
RecvReturn(t, r, l, peek, wfail, fault) ==
    LET rr == IF r >= 0 /\ fault THEN -EFAULT ELSE r IN
    IoReturn(t, [NoRet EXCEPT
                   !.r = rr, !.fault = r >= 0 /\ fault, !.msg = l.msg, !.tries = l.tries,
                   !.rep = RecvOut(rr, l.msg), !.peek = peek, !.wfail = wfail,
                   !.res = l.res, !.rel = l.rel + ExitRelease(l.n_fds), !.ins = l.ins])

\* RECV begins: down_read, bus1_peer_acquire, the checks, the look at the
\* first message under rcu and, without PEEK, the first reservation
RecvCall(t, p) ==
    LET node == bus1_queue_peek(queue[p])
        early(r, n) == [NoRet EXCEPT !.op = "RECV", !.peer = p, !.r = r,
                                     !.n_state = active[p], !.res = n, !.rel = n]
    IN
    /\ pc[t] = "idle"
    /\ calls < MaxIoCalls
    /\ calls' = calls + 1
    /\ rwlock[p] = NoOwner
    /\ \/ IoRefused(t, p, "RECV")
       \/ /\ bus1_peer_acquire(active[p])
          /\ \E c \in {RecvCheck(f, fl, cl) : f \in BOOLEAN, fl \in BOOLEAN, cl \in BOOLEAN} :
                IF c < 0 THEN
                     /\ Return(t, early(c, 0))
                     /\ UNCHANGED acount
                ELSE IF node = NoMsg THEN
                     /\ Return(t, early(-EAGAIN, 0))
                     /\ UNCHANGED acount
                ELSE \/ /\ Goto(t, "v_peek", IoLoc(p, "RECV"))
                        /\ acount' = [acount EXCEPT ![p] = @ + 1]
                     \/ \E o \in Reserve(0, node.n_files) :
                           IF o.r < 0 THEN
                                /\ Return(t, early(o.r, ExitRelease(o.n)))
                                /\ UNCHANGED acount
                           ELSE /\ Goto(t, "v_dequeue",
                                        [IoLoc(p, "RECV") EXCEPT !.n_fds = o.n, !.res = o.n])
                                /\ acount' = [acount EXCEPT ![p] = @ + 1]
          /\ UNCHANGED ioVars
    /\ UNCHANGED <<active, rwlock, info, obj, names, domVars, domLife, histVars>>

\* variant: the look at the first message unlinks it
PeekLeaves_unlinked(q, node) == bus1_queue_remove(q, node.id)

\* the queue after PEEK has looked at its first message: the entry stays queued
PeekLeaves(q, node) == q

\* RECV with PEEK: under the info lock look at the first message and publish
\* its slice
RecvPeek(t) ==
    LET p == loc[t].peer
        node == bus1_queue_peek(queue[p])
    IN
    /\ pc[t] = "v_peek"
    /\ ilock[p] = t
    /\ ilock' = InfoUnlock(ilock, p)
    /\ IF node = NoMsg THEN
            /\ RecvReturn(t, -EAGAIN, loc[t], TRUE, FALSE, FALSE)
            /\ UNCHANGED <<slices, peeked>>
       ELSE /\ \E fault \in BOOLEAN :
                  /\ RecvReturn(t, 0, [loc[t] EXCEPT !.msg = node], TRUE, FALSE, fault)
                  /\ peeked' = [peeked EXCEPT ![p] = IF fault THEN @ ELSE RecvOut(0, node)]
            /\ slices' = [slices EXCEPT ![p] = bus1_pool_publish(@, node.id)]
    /\ queue' = [queue EXCEPT ![p] = PeekLeaves(@, node)]
    /\ UNCHANGED <<active, rwlock, info, obj, names, domVars, domLife, histVars,
                   nmsg, log, taken, flushed>>
    /\ UNCHANGED calls

\* variant: the message stays queued
Dequeue_keep(q, node) == q

\* bus1_queue_remove of the first message
Dequeue(q, node) == bus1_queue_remove(q, node.id)

\* one round of the loop of RECV under the info lock: no message, a message
\* with more files than descriptors reserved (reserve again and retry), or
\* the dequeue of the first message; a message without files is finished here
RecvDequeue(t) ==
    LET p == loc[t].peer
        l == loc[t]
        node == bus1_queue_peek(queue[p])
        got == [l EXCEPT !.msg = node, !.n_fds = node.n_files,
                         !.rel = l.rel + (l.n_fds - node.n_files)]
    IN
    /\ pc[t] = "v_dequeue"
    /\ ilock[p] = t
    /\ ilock' = InfoUnlock(ilock, p)
    /\ IF node = NoMsg THEN
            /\ RecvReturn(t, -EAGAIN, l, FALSE, FALSE, FALSE)
            /\ UNCHANGED <<queue, slices, taken, peeked>>
       ELSE IF node.n_files > l.n_fds THEN
            /\ \E o \in Reserve(l.n_fds, node.n_files) :
                  LET l2 == [l EXCEPT !.n_fds = o.n, !.res = l.res + (o.n - l.n_fds),
                                      !.tries = l.tries + 1] IN
                  IF o.r < 0 THEN RecvReturn(t, o.r, l2, FALSE, FALSE, FALSE)
                  ELSE /\ Goto(t, "v_dequeue", l2)
                       /\ UNCHANGED acount
            /\ UNCHANGED <<queue, slices, taken, peeked>>
       ELSE /\ queue' = [queue EXCEPT ![p] = Dequeue(@, node)]
            /\ taken' = [taken EXCEPT ![p] = Append(@, node.id)]
            /\ peeked' = [peeked EXCEPT ![p] = <<>>]
            /\ IF node.n_files = 0 THEN
                    /\ slices' = [slices EXCEPT ![p] =
                          bus1_message_deallocate_locked(bus1_pool_publish(@, node.id),
                                                         node.id)]
                    /\ \E fault \in BOOLEAN : RecvReturn(t, 0, got, FALSE, FALSE, fault)
               ELSE /\ slices' = [slices EXCEPT ![p] = bus1_pool_publish(@, node.id)]
                    /\ Goto(t, "v_install", got)
                    /\ UNCHANGED acount
    /\ UNCHANGED <<active, rwlock, info, obj, names, domVars, domLife, histVars,
                   nmsg, log, flushed>>
    /\ UNCHANGED calls

\* the end of RECV for a message with files: bus1_pool_write_kvec of the
\* descriptor numbers, the deallocation of the slice, fd_install of every
\* descriptor if the write succeeded, bus1_message_free, the exit
RecvInstall(t) ==
    LET p == loc[t].peer
        l == loc[t]
    IN
    /\ pc[t] = "v_install"
    /\ ilock[p] = NoOwner
    /\ slices' = [slices EXCEPT ![p] = bus1_message_deallocate_locked(@, l.msg.id)]
    /\ \E w \in {0} \cup WriteErrors, fault \in BOOLEAN :
          IF w >= 0
          THEN RecvReturn(t, 0, [l EXCEPT !.ins = l.n_fds, !.n_fds = 0], FALSE, FALSE, fault)
          ELSE RecvReturn(t, w, l, FALSE, TRUE, FALSE)
    /\ UNCHANGED <<active, rwlock, info, obj, names, domVars, domLife, histVars,
                   queue, nmsg, log, taken, flushed, peeked, ilock>>
    /\ UNCHANGED calls

Init ==
    /\ active = [p \in Peers |-> "NEW"]
    /\ acount = [p \in Peers |-> 0]
    /\ rwlock = [p \in Peers |-> NoOwner]
    /\ info = [p \in Peers |-> FALSE]
    /\ obj = [p \in Peers |-> NoObj]
    /\ names = [p \in Peers |-> <<>>]
    /\ dlock = NoOwner
    /\ seqcount = 0
    /\ map_names = {}
    /\ n_names = 0
    /\ list_peers = <<>>
    /\ n_peers = 0
    /\ users = [u \in UIDs |-> 0]
    /\ dom_active = TRUE
    /\ dom_refs = 0
    /\ dpc = "idle"
    /\ dset = {}
    /\ pc = [t \in Threads |-> "idle"]
    /\ loc = [t \in Threads |-> DefaultLoc]
    /\ calls = 0
    /\ queue = [p \in Peers |-> <<>>]
    /\ slices = [p \in Peers |-> {}]
    /\ nmsg = 0
    /\ log = [p \in Peers |-> <<>>]
    /\ taken = [p \in Peers |-> <<>>]
    /\ flushed = [p \in Peers |-> {}]
    /\ peeked = [p \in Peers |-> <<>>]
    /\ ilock = [p \in Peers |-> NoOwner]
    /\ n_cleanup = [p \in Peers |-> 0]
    /\ n_free = [p \in Peers |-> 0]
    /\ n_disc = [p \in Peers |-> 0]
    /\ snap = [p \in Peers |-> NoSnap]
    /\ ret = NoRet

Next ==
    \/ \E t \in Threads, p \in Peers : ConnectCall(t, p)
    \/ \E t \in Threads : ConnectRefuse(t)
    \/ \E t \in Threads : ConnectExisting(t)
    \/ \E t \in Threads : ConnectNew(t)
    \/ \E t \in Threads : ConnectResetCall(t)
    \/ \E t \in Threads : ConnectQueryCall(t)
    \/ \E t \in Threads : ConnectDomainLock(t)
    \/ \E t \in Threads : ConnectAdd(t)
    \/ \E t \in Threads : ConnectPublish(t)
    \/ \E t \in Threads : ConnectUnwind(t)
    \/ \E t \in Threads : ConnectError(t)
    \/ \E t \in Threads, p \in Peers : DisconnectCall(t, p)
    \/ \E t \in Threads : TeardownLock(t)
    \/ \E t \in Threads : TeardownDrain(t)
    \/ \E t \in Threads : TeardownDomainLock(t)
    \/ \E t \in Threads : TeardownCleanup(t)
    \/ \E t \in Threads : TeardownFree(t)
    \/ DomainDeactivate
    \/ DomainDeactivatePeers
    \/ DomainLock
    \/ \E p \in Peers : TeardownDomain(p)
    \/ DomainUnlock
    \/ \E p \in Peers : PeerAcquire(p)
    \/ \E p \in Peers : PeerRelease(p)
    \/ \E t \in Threads : ResolveCall(t)
    \/ \E t \in Threads : ResolveWalk(t)
    \/ \E t \in Threads : ResolveCheck(t)
    \/ \E t \in Threads : ResolveBegin(t)

Spec == Init /\ [][Next]_vars

\* --------------------------------------- the message paths of connected peers
\* the state after the peers of C have connected, peer 1 with one name, and
\* all calls have returned
Connected0(C) ==
    /\ active = [p \in Peers |-> IF p \in C THEN "ACTIVE" ELSE "NEW"]
    /\ acount = [p \in Peers |-> 0]
    /\ rwlock = [p \in Peers |-> NoOwner]
    /\ info = [p \in Peers |-> p \in C]
    /\ obj = [p \in Peers |-> IF p \in C
                                THEN [st |-> "live", pool_size |-> PAGE_SIZE, user |-> "root"]
                                ELSE NoObj]
    /\ names = [p \in Peers |-> IF p = 1 THEN <<bus1_peer_name_new(1, <<1>>, 1)>> ELSE <<>>]
    /\ dlock = NoOwner
    /\ seqcount = 2 * Cardinality(C)
    /\ map_names = {bus1_peer_name_new(1, <<1>>, 1)}
    /\ n_names = 1
    /\ list_peers = IF C = {1} THEN <<1>> ELSE <<2, 1>>
    /\ n_peers = Cardinality(C)
    /\ users = [u \in UIDs |-> Cardinality(C)]
    /\ dom_active = TRUE
    /\ dom_refs = 0
    /\ dpc = "idle"
    /\ dset = {}
    /\ pc = [t \in Threads |-> "idle"]
    /\ loc = [t \in Threads |-> DefaultLoc]
    /\ n_cleanup = [p \in Peers |-> 0]
    /\ n_free = [p \in Peers |-> 0]
    /\ n_disc = [p \in Peers |-> 0]
    /\ snap = [p \in Peers |-> NoSnap]
    /\ ret = NoRet

\* no message has been sent yet
NoMessages ==
    /\ queue = [p \in Peers |-> <<>>]
    /\ slices = [p \in Peers |-> {}]
    /\ nmsg = 0
    /\ log = [p \in Peers |-> <<>>]
    /\ taken = [p \in Peers |-> <<>>]
    /\ flushed = [p \in Peers |-> {}]
    /\ peeked = [p \in Peers |-> <<>>]
    /\ ilock = [p \in Peers |-> NoOwner]

\* peer 1 has connected, peer 2 has or has not
InitIO ==
    /\ Connected0({1, 2}) \/ Connected0({1})
    /\ NoMessages
    /\ calls = 0

NextIO ==
    \/ \E t \in Threads, p \in Peers : SliceReleaseCall(t, p)
    \/ \E t \in Threads : SliceRelease(t)
    \/ \E t \in Threads, p \in Senders : SendCall(t, p)
    \/ \E t \in Threads : SendUnicast(t)
    \/ \E t \in Threads : SendInstantiate(t)
    \/ \E t \in Threads : SendCommit(t)
    \/ \E t \in Threads, p \in Peers : RecvCall(t, p)
    \/ \E t \in Threads : RecvPeek(t)
    \/ \E t \in Threads : RecvDequeue(t)
    \/ \E t \in Threads : RecvInstall(t)
    \/ \E t \in Threads : InfoLock(t)
    \/ \E t \in Threads, p \in Peers : ConnectCall(t, p)
    \/ \E t \in Threads : ConnectRefuse(t)
    \/ \E t \in Threads : ConnectResetCall(t)

SpecIO == InitIO /\ [][NextIO]_vars

\* ------------------------------- the message paths and the end of a peer
\* both peers have connected and one SEND has returned: a message with one
\* file is committed to peer 1
InitLife ==
    /\ Connected0({1, 2})
    /\ queue = [p \in Peers |-> IF p = 1 THEN <<[id |-> 1, n_files |-> 1, size |-> 12,
                                                  committed |-> TRUE]>> ELSE <<>>]
    /\ slices = [p \in Peers |-> IF p = 1 THEN {[off |-> 1, size |-> 12, kern |-> TRUE,
                                                  user |-> FALSE]} ELSE {}]
    /\ nmsg = 1
    /\ log = [p \in Peers |-> IF p = 1 THEN <<1>> ELSE <<>>]
    /\ taken = [p \in Peers |-> <<>>]
    /\ flushed = [p \in Peers |-> {}]
    /\ peeked = [p \in Peers |-> <<>>]
    /\ ilock = [p \in Peers |-> NoOwner]
    /\ calls = 1

NextLife ==
    \/ NextIO
    \/ \E t \in Threads, p \in Peers : DisconnectCall(t, p)
    \/ \E t \in Threads : TeardownLock(t)
    \/ \E t \in Threads : TeardownDrain(t)
    \/ \E t \in Threads : TeardownDomainLock(t)
    \/ \E t \in Threads : TeardownCleanup(t)
    \/ \E t \in Threads : TeardownFree(t)
    \/ DomainDeactivate
    \/ DomainDeactivatePeers
    \/ DomainLock
    \/ \E p \in Peers : TeardownDomain(p)
    \/ DomainUnlock
    \/ \E p \in Peers : PeerAcquire(p)
    \/ \E p \in Peers : PeerRelease(p)

SpecLife == InitLife /\ [][NextLife]_vars

\* ================================================================ claims
NamesOf(nl) == {nl[i].name : i \in 1..Len(nl)}
IndexNames == {m.name : m \in map_names}
Linked(p) == \E i \in 1..Len(list_peers) : list_peers[i] = p
Connected(p) == active[p] \in {"ACTIVE", "DEACTIVATING"}
UsersBound(u) ==
    Cardinality({p \in Peers : obj[p].user = u})
    + Cardinality({t \in Threads : loc[t].uid = u})
PendingFree(p) ==
    \E t \in Threads : pc[t] = "t_free" /\ loc[t].peer = p /\ loc[t].peer_info

RECURSIVE BlobNames(_)
BlobNames(b) ==
    IF b = <<>> THEN {} ELSE {CStr(b)} \cup BlobNames(Rest(b, strnlen(b)))

\* C1: whenever the domain mutex is free, a peer's info pointer is non-null
\* exactly when its active-ref is ACTIVE or DEACTIVATING and its cleanup has
\* not run yet.
C1_InfoIffConnected ==
    dlock = NoOwner =>
        \A p \in Peers : info[p] <=> (Connected(p) /\ n_cleanup[p] = 0)

\* a DISCONNECT has deactivated a connected peer and not yet cleaned it up
C1_Witness ==
    /\ dlock = NoOwner
    /\ \E p \in Peers : active[p] = "DEACTIVATING" /\ info[p] /\ n_cleanup[p] = 0
    /\ \E t \in Threads : pc[t] \in {"t_drain", "t_dlock"}

\* C2: whenever the domain mutex is free, a name is in the domain's index
\* exactly when some ACTIVE or DEACTIVATING peer has it in its name list.
C2_IndexIffOwned ==
    dlock = NoOwner =>
        \A n \in NameStrings \cup IndexNames :
            n \in IndexNames <=>
                \E p \in Peers : Connected(p) /\ n \in NamesOf(names[p])

\* a DISCONNECT of a connected peer returned while another peer keeps a name
C2_Witness ==
    /\ dlock = NoOwner
    /\ ret.op = "DISCONNECT" /\ ret.r = 0 /\ n_cleanup[ret.peer] = 1
    /\ map_names # {}

\* C3: whenever the domain mutex is free, n_peers is the length of the peer
\* list and n_names the number of nodes in the index.
C3_CountersMatch ==
    dlock = NoOwner =>
        /\ n_peers = Len(list_peers)
        /\ n_names = Cardinality(map_names)

\* a repeated DISCONNECT returned while another peer is connected
C3_Witness ==
    /\ dlock = NoOwner
    /\ ret.op = "DISCONNECT" /\ ret.r = -ESHUTDOWN
    /\ n_peers = 1

\* C4: across DISCONNECT and the domain's teardown the cleanup body and the
\* free of the info run at most once per peer, both have run once the teardown
\* of a connected peer is over, and a peer that is DEAD keeps no info, no
\* names, no user and no link, whatever is called on it later.
C4_CleanupOnce ==
    /\ \A p \in Peers :
        /\ n_cleanup[p] <= 1
        /\ n_free[p] <= n_cleanup[p]
        /\ active[p] = "DEAD" =>
              /\ ~info[p] /\ names[p] = <<>> /\ ~Linked(p)
              /\ obj[p].user = NoUser
              /\ obj[p].st # "none" /\ ~PendingFree(p) =>
                    n_cleanup[p] = 1 /\ n_free[p] = 1
    /\ \A u \in UIDs : users[u] = UsersBound(u)

\* a second DISCONNECT of a peer that was connected has returned
C4_Witness ==
    /\ ret.op = "DISCONNECT" /\ ret.r = -ESHUTDOWN
    /\ n_cleanup[ret.peer] = 1 /\ n_free[ret.peer] = 1

\* C5: a RESOLVE whose walk ends on a name owned by a DEACTIVATING or DEAD
\* peer returns -ENXIO.
C5_DeactivatedIsNotFound ==
    (ret.op = "RESOLVE" /\ ret.n_state \in {"DEACTIVATING", "DEAD"}) =>
        ret.r = -ENXIO

\* C6: a RESOLVE that returns success found a node its CONNECT had published,
\* that is, a CONNECT that had left its write section.
C6_SuccessOnlyPublished ==
    (ret.op = "RESOLVE" /\ ret.r = 0) => ret.n_pub

\* a writer is inside its seqcount write section and has a step to take
WriterRunning ==
    \/ \E u \in Threads : dlock = u /\ pc[u] \in {"c_add", "c_unwind", "c_unwound",
                                                  "t_cleanup"}
    \/ dlock = DomainOwner /\ dpc = "teardown"

C8_CollisionAllOrNothing ==
    /\ \A t \in Threads : pc[t] = "c_unwound" =>
          /\ loc[t].r = -EISNAM
          /\ map_names = loc[t].idx
          /\ n_names = loc[t].cnt
    /\ (ret.op = "CONNECT" /\ ret.r = -EISNAM) =>
          /\ active[ret.peer] = "NEW"
          /\ ~info[ret.peer]
          /\ names[ret.peer] = <<>>
          /\ ~Linked(ret.peer)
          /\ \A m \in map_names : m.peer # ret.peer
          /\ \A u \in UIDs : users[u] = UsersBound(u)

\* a CONNECT collided with the name of another, connected peer and returned
C8_Witness ==
    /\ ret.op = "CONNECT" /\ ret.r = -EISNAM
    /\ \E q \in Peers : q # ret.peer /\ names[q] # <<>> /\ Connected(q)

\* C9: a CONNECT with a well-formed blob on a connected peer returns -EISCONN
\* exactly when the pool size and the set of names match the peer's, and
\* -EREMCHG otherwise.
C9_ReconnectCompares ==
    (/\ ret.op = "CONNECT"
     /\ ret.path = "again"
     /\ ret.names \in WellFormedBlobs
     /\ info[ret.peer]) =>
        ret.r = IF /\ ret.pool = obj[ret.peer].pool_size
                   /\ BlobNames(ret.names) = NamesOf(names[ret.peer])
                THEN -EISCONN ELSE -EREMCHG

\* C10: when a DISCONNECT returns success and nothing else touched the domain
\* since the peer's CONNECT began, the index, n_names, the peer list, n_peers
\* and the user references are what they were then; and no RESOLVE succeeds on
\* a node of a DEAD peer.
C10_RoundTrip ==
    /\ (/\ ret.op = "DISCONNECT" /\ ret.r = 0
        /\ snap[ret.peer].taken /\ ~snap[ret.peer].dirty) =>
          /\ map_names = snap[ret.peer].map
          /\ n_names = snap[ret.peer].n_names
          /\ list_peers = snap[ret.peer].list
          /\ n_peers = snap[ret.peer].n_peers
          /\ users = snap[ret.peer].users
    /\ (ret.op = "RESOLVE" /\ ret.r = 0) => ret.n_state # "DEAD"

\* the DISCONNECT of a peer that was connected with a name returned success,
\* with nothing else in between
C10_Witness ==
    /\ ret.op = "DISCONNECT" /\ ret.r = 0
    /\ snap[ret.peer].taken /\ ~snap[ret.peer].dirty
    /\ n_cleanup[ret.peer] = 1 /\ n_free[ret.peer] = 1
    /\ n_names = 0

\* a DISCONNECT of peer p has run the cleanup and has yet to return
DisconnectReturning(p) ==
    \E t \in Threads : pc[t] = "t_free" /\ loc[t].peer = p /\ loc[t].r = 0

\* C11: of all the DISCONNECT calls on a peer at most one returns 0 and every
\* other valid call returns -ESHUTDOWN, leaving the peer DEAD; a connected peer
\* whose cleanup has run was torn down by the one successful DISCONNECT, which
\* is the call that frees its info, or else by the domain, and then every
\* DISCONNECT on it returns -ESHUTDOWN.
C11_OneDisconnectSucceeds ==
    /\ [](/\ \A p \in Peers :
              /\ n_disc[p] <= 1
              /\ (n_cleanup[p] = 1 /\ ~DisconnectReturning(p))
                    => (n_disc[p] = 1 \/ p \in dset)
          /\ (ret.op = "DISCONNECT" /\ ret.r # -EINVAL)
                => /\ ret.r \in {0, -ESHUTDOWN}
                   /\ active[ret.peer] = "DEAD"
                   /\ ret.r = 0 => n_disc[ret.peer] = 1
                   /\ ret.r = -ESHUTDOWN
                         => (n_disc[ret.peer] = 1 \/ DisconnectReturning(ret.peer)
                             \/ ret.peer \in dset))
    /\ [][(ret'.op = "DISCONNECT" /\ ret'.r = 0 /\ n_cleanup'[ret'.peer] = 1)
             => (n_free[ret'.peer] = 0 /\ n_free'[ret'.peer] = 1)]_vars

C11_Witness ==
    /\ ret.op = "DISCONNECT" /\ ret.r = -ESHUTDOWN
    /\ n_disc[ret.peer] = 1 /\ n_cleanup[ret.peer] = 1
    /\ ret.peer \notin dset

\* the positions of a DISCONNECT between its call and its return
TeardownPcs == {"t_lock", "t_drain", "t_dlock", "t_cleanup", "t_free"}

\* every call that has begun returns
FairLife == SpecLife /\ WF_vars(NextLife)

\* C12: while a thread is inside SLICE_RELEASE, SEND or RECV on a peer, or an
\* active reference on it is in flight, its cleanup has not run: the info is
\* in place and live, the names and the user binding are kept; a DISCONNECT
\* that is past the drain finds no reference in flight; every DISCONNECT
\* returns, and once it has returned the peer is DEAD without info, names or
\* user binding.
C12_CleanupWaitsForReferences ==
    /\ [](\A p \in Peers :
            /\ (acount[p] > 0 \/ Readers(p) # {})
                  => /\ n_cleanup[p] = 0 /\ n_free[p] = 0
                     /\ info[p] /\ obj[p].st = "live" /\ obj[p].user # NoUser
                     /\ Linked(p)
                     /\ \A i \in 1..Len(names[p]) : names[p][i] \in map_names
            /\ \A t \in Threads :
                  (loc[t].peer = p /\ pc[t] \in {"t_dlock", "t_cleanup", "t_free"})
                     => (acount[p] = 0 /\ Readers(p) = {}))
    /\ []((ret.op = "DISCONNECT" /\ ret.r # -EINVAL)
            => /\ active[ret.peer] = "DEAD" /\ ~info[ret.peer]
               /\ names[ret.peer] = <<>> /\ obj[ret.peer].user = NoUser)
    /\ \A t \in Threads : (pc[t] \in TeardownPcs) ~> (pc[t] = "idle")

C12_Witness ==
    \E t \in Threads :
       /\ pc[t] = "t_lock"
       /\ Readers(loc[t].peer) \ {t} # {}
       /\ acount[loc[t].peer] > 1

Ids(q) == [i \in 1..Len(q) |-> q[i].id]
CommittedIds(q) == Ids(SelectSeq(q, LAMBDA n : n.committed))
NotFlushed(p, l) == SelectSeq(l, LAMBDA id : id \notin flushed[p])
NoDuplicates(l) == \A i, j \in 1..Len(l) : l[i] = l[j] => i = j

\* C14: the messages dequeued from a peer by RECV without PEEK, followed by
\* the committed messages still queued, are the messages committed to the peer
\* in commit order, less the flushed ones; no message is dequeued twice; every
\* dequeue takes the first committed message; a RECV that returns success
\* reports the message it dequeued, which no other call holds.
C14_ReceiveInCommitOrder ==
    /\ [](\A p \in Peers :
            /\ taken[p] \o CommittedIds(queue[p]) = NotFlushed(p, log[p])
            /\ NoDuplicates(taken[p]) /\ NoDuplicates(log[p])
            /\ \A t, u \in Threads :
                  (pc[t] = "v_install" /\ pc[u] = "v_install" /\ loc[t].peer = p
                   /\ loc[u].peer = p /\ loc[t].msg.id = loc[u].msg.id) => t = u)
    /\ []((ret.op = "RECV" /\ ~ret.peek /\ ret.r = 0)
            => /\ ret.rep[1] = ret.msg.id
               /\ \E i \in 1..Len(taken[ret.peer]) : taken[ret.peer][i] = ret.msg.id
               /\ ~bus1_queue_node_is_queued(queue[ret.peer], ret.msg.id)
               /\ \A t \in Threads : (pc[t] = "v_install" /\ loc[t].peer = ret.peer)
                                        => loc[t].msg.id # ret.msg.id)
    /\ [][\A p \in Peers :
            taken'[p] # taken[p]
               => taken'[p] = Append(taken[p], bus1_queue_peek(queue[p]).id)]_vars

C14_Witness ==
    /\ ret.op = "RECV" /\ ~ret.peek /\ ret.r = 0 /\ ret.tries > 0
    /\ Len(taken[ret.peer]) = 2
    /\ taken[ret.peer][2] = ret.msg.id

InSeq(x, l) == \E i \in 1..Len(l) : l[i] = x

\* C15: a message that was linked in the queue of a peer when a flush of the
\* peer ran, staged or committed, is never linked there again and is never
\* committed afterwards; what RECV reports, with or without PEEK, is a
\* committed message of the peer that no flush has met; every committed
\* message of a queue was committed by its transaction.
C15_FlushCutsCleanly ==
    /\ [](\A p \in Peers :
            /\ \A i \in 1..Len(queue[p]) :
                  /\ queue[p][i].id \notin flushed[p]
                  /\ queue[p][i].committed => InSeq(queue[p][i].id, log[p])
            /\ ~bus1_queue_peek(queue[p]).committed => bus1_queue_peek(queue[p]) = NoMsg)
    /\ []((ret.op = "RECV" /\ ret.r = 0)
            => /\ ret.msg.committed
               /\ ret.msg.id \notin flushed[ret.peer]
               /\ InSeq(ret.msg.id, log[ret.peer]))
    /\ [][\A p \in Peers :
            /\ log'[p] # log[p]
                  => \E id \in (1..MaxMsgs) \ flushed[p] : log'[p] = Append(log[p], id)
            /\ flushed[p] \subseteq flushed'[p]]_vars

C15_Witness ==
    /\ ret.op = "SEND" /\ ret.r = 0 /\ ret.dests = <<1, 2>>
    /\ ret.msg.id \in flushed[1]
    /\ ~InSeq(ret.msg.id, log[1])
    /\ InSeq(ret.msg.id, log[2])

\* the step is the return of a CONNECT with RESET on peer p
ResetReturns(p) == ret'.op = "CONNECT" /\ ret'.path = "reset" /\ ret'.peer = p

\* the step is the return of a RECV that had dequeued its message before
InstallReturns == \E t \in Threads : pc[t] = "v_install" /\ pc'[t] = "idle"

\* C16: a RESET of a connected peer with pool_size 0 and no trailing bytes
\* returns 0 (unless the copy-back of a QUERY faults), keeps the names, the
\* info and its pool size, the activation state and the domain as they were,
\* and leaves queue and pool of the peer empty, so that a RECV that finds the
\* queue as the RESET left it returns -EAGAIN; a RESET of a NEW peer returns
\* -ENOTCONN, one with a pool size or trailing bytes -EINVAL, and neither
\* touches queue or pool.
C16_ResetFlushesOnly ==
    /\ [][\A p \in Peers : ResetReturns(p) =>
            /\ names' = names /\ obj' = obj /\ info' = info /\ active' = active
            /\ map_names' = map_names /\ n_names' = n_names
            /\ list_peers' = list_peers /\ n_peers' = n_peers /\ users' = users
            /\ active[p] = "NEW" => ret'.r = -ENOTCONN
            /\ (active[p] # "NEW" /\ (ret'.pool # 0 \/ ret'.names # <<>>))
                  => ret'.r = -EINVAL
            /\ (active[p] = "ACTIVE" /\ ret'.pool = 0 /\ ret'.names = <<>> /\ ~ret'.fault)
                  => ret'.r = 0
            /\ ret'.r \in {-ENOTCONN, -EINVAL}
                  => (queue' = queue /\ slices' = slices /\ flushed' = flushed)
            /\ (active[p] = "ACTIVE" /\ ret'.pool = 0 /\ ret'.names = <<>>)
                  => /\ queue'[p] = <<>> /\ slices'[p] = {}
                     /\ bus1_queue_peek(queue'[p]) = NoMsg
                     /\ \A q \in Peers \ {p} : queue'[q] = queue[q] /\ slices'[q] = slices[q]]_vars
    /\ [][\A p \in Peers :
            (ret'.op = "RECV" /\ ret'.peer = p /\ queue[p] = <<>> /\ ~InstallReturns)
               => /\ ret'.r \in {-EAGAIN, -EFAULT, -EINVAL, -ESHUTDOWN}
                  /\ (ret'.n_state = "ACTIVE" /\ ret'.r \notin {-EFAULT, -EINVAL})
                        => ret'.r = -EAGAIN]_vars

C16_Witness ==
    /\ ret.op = "CONNECT" /\ ret.path = "reset" /\ ret.r = 0
    /\ flushed[ret.peer] # {}
    /\ queue[ret.peer] = <<>> /\ slices[ret.peer] = {}
    /\ names[ret.peer] # <<>>

C16_WitnessNew == ret.op = "CONNECT" /\ ret.path = "reset" /\ ret.r = -ENOTCONN
C16_WitnessInval ==
    /\ ret.op = "CONNECT" /\ ret.path = "reset" /\ ret.r = -EINVAL
    /\ queue[ret.peer] # <<>>
C16_WitnessAgain ==
    /\ ret.op = "RECV" /\ ret.r = -EAGAIN /\ flushed[ret.peer] # {}

\* C17: when RECV without PEEK has dequeued a message with files and the write
\* of the descriptor numbers into the slice fails, the message is not linked
\* again, the kernel's reference to its slice is dropped, no descriptor is
\* installed, and the call returns 0.
C17_FailedWriteReportsSuccess ==
    (ret.op = "RECV" /\ ret.wfail)
       => /\ ~bus1_queue_node_is_queued(queue[ret.peer], ret.msg.id)
          /\ \A x \in slices[ret.peer] : x.off = ret.msg.id => ~x.kern
          /\ ret.ins = 0
          /\ ret.r = 0

\* what does hold of such a call: the message is dropped, and the call returns
\* the error of the write
C17_FailedWriteReportsError ==
    (ret.op = "RECV" /\ ret.wfail)
       => /\ ~bus1_queue_node_is_queued(queue[ret.peer], ret.msg.id)
          /\ \A x \in slices[ret.peer] : x.off = ret.msg.id => ~x.kern
          /\ ret.ins = 0 /\ ret.rel = ret.res
          /\ ret.r \in WriteErrors

\* C18: whenever RECV returns, the descriptors it reserved are the ones it
\* installed plus the ones it released; inside the call the reserved ones are
\* the installed, the released and the ones still held; descriptors are
\* installed only for the message the call dequeued, as many as it has files;
\* a successful RECV without PEEK has installed as many as it reports.
C18_DescriptorsBalanced ==
    /\ (ret.op = "RECV")
          => /\ ret.res = ret.rel + ret.ins
             /\ ret.ins \in {0, ret.msg.n_files}
             /\ ret.ins > 0 => (~ret.peek /\ ~ret.wfail /\ InSeq(ret.msg.id, taken[ret.peer]))
             /\ (ret.r = 0 /\ ~ret.peek) => (ret.ins = ret.rep[3] /\ ret.rel = ret.res - ret.rep[3])
    /\ \A t \in Threads :
          loc[t].op = "RECV"
             => /\ loc[t].res = loc[t].rel + loc[t].ins + loc[t].n_fds
                /\ loc[t].ins = 0

C18_Witness ==
    /\ ret.op = "RECV" /\ ret.tries > 0 /\ ret.r = -EMFILE
    /\ ret.res > 0 /\ ret.rel = ret.res

C18_WitnessSurrender ==
    /\ ret.op = "RECV" /\ ret.r = 0 /\ ret.rel > 0 /\ ret.ins > 0
C18_WitnessRetry ==
    /\ ret.op = "RECV" /\ ret.r = 0 /\ ret.tries > 0 /\ ret.ins = 2

\* the step is the return of a RECV with PEEK on peer p
PeekReturns(p) == ret'.op = "RECV" /\ ret'.peer = p /\ ret'.peek

\* C19: RECV with PEEK changes no queue, dequeues, reserves and installs
\* nothing, and on success reports offset, size and number of files of the
\* first committed message; a PEEK that follows a PEEK, with no dequeue and no
\* flush between them, reports the same; the reported message stays the first
\* one until a RECV without PEEK dequeues it or a flush removes it, and that
\* RECV holds the same offset and size and as many descriptors as were
\* reported; a RECV without PEEK that succeeds reports the message it holds
\* and has installed as many descriptors as it reports.
C19_PeekThenReceive ==
    /\ [][\A p \in Peers : PeekReturns(p) =>
            /\ queue' = queue /\ taken' = taken /\ log' = log
            /\ ret'.res = 0 /\ ret'.ins = 0 /\ ret'.rel = 0
            /\ ret'.r = 0 => /\ bus1_queue_peek(queue[p]) # NoMsg
                             /\ ret'.rep = RecvOut(0, bus1_queue_peek(queue[p]))
            /\ (ret'.r = 0 /\ peeked[p] # <<>>) => ret'.rep = peeked[p]]_vars
    /\ [](\A p \in Peers :
            peeked[p] # <<>> => peeked[p] = RecvOut(0, bus1_queue_peek(queue[p])))
    /\ [][\A p \in Peers : (taken'[p] # taken[p] /\ peeked[p] # <<>>) =>
            \E t \in Threads :
               /\ pc[t] = "v_dequeue" /\ loc[t].peer = p
               /\ \/ /\ pc'[t] = "v_install"
                     /\ RecvOut(0, loc'[t].msg) = peeked[p]
                     /\ loc'[t].n_fds = peeked[p][3]
                  \/ /\ pc'[t] = "idle" /\ peeked[p][3] = 0
                     /\ RecvOut(0, ret'.msg) = peeked[p]
                     /\ ret'.r = 0 => ret'.rep = peeked[p]]_vars
    /\ [](/\ (ret.op = "RECV" /\ ~ret.peek /\ ret.r = 0)
               => (ret.rep = RecvOut(0, ret.msg) /\ ret.ins = ret.rep[3])
          /\ \A t \in Threads :
                pc[t] = "v_install" => loc[t].n_fds = loc[t].msg.n_files)

C19_Witness ==
    /\ ret.op = "RECV" /\ ret.peek /\ ret.r = 0
    /\ ret.rep[3] = 2 /\ peeked[ret.peer] = ret.rep
    /\ \E t \in Threads : /\ pc[t] = "v_dequeue" /\ loc[t].peer = ret.peer
                          /\ loc[t].n_fds = 2

\* message id is committed to peer p, or was until a flush of p removed it
CommittedTo(id, p) == InSeq(id, log[p])
Multicast(d) == Len(d) > 1

\* C20: a SEND to more than one destination that returns an error has left
\* its message in no queue, staged or committed, and committed to no peer, and
\* the error is the one of the fetch or of the instantiation that failed; one
\* that returns 0 had every destination instantiated and committed its message
\* to each of them that no flush has emptied since; while the loop over the
\* destinations runs nothing of the message is committed, and the commit
\* begins only after the last destination was instantiated.
C20_MulticastAllOrNothing ==
    /\ []((ret.op = "SEND" /\ Multicast(ret.dests)) =>
            /\ ret.r \in {0, -EFAULT, -ENOMEM, -ENXIO}
            /\ ret.r < 0 => \A p \in Peers :
                               /\ ~CommittedTo(ret.msg.id, p)
                               /\ ~bus1_queue_node_is_queued(queue[p], ret.msg.id)
            /\ ret.r = 0 => \A i \in 1..Len(ret.dests) :
                               /\ ret.dests[i] \in Peers
                               /\ \/ CommittedTo(ret.msg.id, ret.dests[i])
                                  \/ ret.msg.id \in flushed[ret.dests[i]])
    /\ [](\A t \in Threads : (pc[t] = "s_dest" /\ Multicast(loc[t].dests)) =>
            LET d == loc[t].dests
                id == loc[t].msg.id
            IN
            /\ loc[t].i <= Len(d) =>
                  /\ \A p \in Peers : ~CommittedTo(id, p)
                  /\ loc[t].done = 0
                  /\ \A k \in 1..(loc[t].i - 1) :
                        /\ d[k] \in Peers
                        /\ bus1_queue_node_is_queued(queue[d[k]], id) \/ id \in flushed[d[k]]
            /\ loc[t].i > Len(d) =>
                  \A k \in 1..Len(d) :
                     /\ d[k] \in Peers
                     /\ k <= loc[t].done => (CommittedTo(id, d[k]) \/ id \in flushed[d[k]]))

C20_Witness ==
    /\ ret.op = "SEND" /\ ret.dests = <<1, BadId>> /\ ret.r = -ENXIO
    /\ \A p \in Peers : ~bus1_queue_node_is_queued(queue[p], ret.msg.id)
    /\ \A x \in slices[1] : x.off # ret.msg.id

C20_WitnessAll ==
    /\ ret.op = "SEND" /\ ret.dests = <<1, 2>> /\ ret.r = 0
    /\ CommittedTo(ret.msg.id, 1) /\ CommittedTo(ret.msg.id, 2)

\* the step is a call of bus1_peer_teardown_domain: the domain holds its lock
\* before and after
TeardownDomainStep == dlock = DomainOwner /\ dlock' = DomainOwner

\* C21: bus1_peer_teardown_domain leaves the peer list of the domain and its
\* count as they were; it releases the names, the user binding and the info
\* of the peer.
C21_DomainTeardownKeepsList ==
    [][TeardownDomainStep =>
          /\ list_peers' = list_peers /\ n_peers' = n_peers
          /\ \A p \in Peers : active'[p] # active[p] =>
                /\ names'[p] = <<>> /\ ~info'[p] /\ obj'[p].user = NoUser]_vars

\* what does hold of the call: names, user binding and info are released, and
\* a peer whose cleanup ran is unlinked from the list
C21_DomainTeardownUnlinks ==
    [][TeardownDomainStep =>
          \A p \in Peers : active'[p] # active[p] =>
             /\ names'[p] = <<>> /\ ~info'[p] /\ obj'[p].user = NoUser
             /\ n_cleanup'[p] = n_cleanup[p] + 1 => (Linked(p) /\ ~Linked(p)')]_vars

\* C22: whenever the domain mutex is free, a peer is linked in the peer list
\* of the domain exactly if its active-ref is not NEW.
C22_LinkedIffNotNew ==
    dlock = NoOwner => \A p \in Peers : Linked(p) <=> active[p] # "NEW"

\* what does hold whenever the domain mutex is free: the linked peers are the
\* ones with an info, and they are ACTIVE or DEACTIVATING
C22_LinkedIffInfo ==
    dlock = NoOwner =>
       \A p \in Peers : /\ Linked(p) <=> info[p]
                        /\ Linked(p) => active[p] \in {"ACTIVE", "DEACTIVATING"}

\* the step is the return of a CONNECT with QUERY alone on peer p
QueryReturns(p) == ret'.op = "CONNECT" /\ ret'.path = "query" /\ ret'.peer = p

\* C23: a CONNECT that returns success and copied the pool size back, which it
\* does exactly when the request had the QUERY flag, has written the pool size
\* the peer has now; the copy is made for QUERY alone, with RESET and with the
\* connect of a new peer; a QUERY of a NEW peer returns -ENOTCONN; a QUERY
\* changes nothing of the peers, the domain, the queues and the pools.
C23_QueryReportsPoolSize ==
    /\ []((ret.op = "CONNECT" /\ ret.r >= 0 /\ "QUERY" \in ret.flags)
            => /\ info[ret.peer]
               /\ ret.out = obj[ret.peer].pool_size
               /\ ret.out > 0)
    /\ []((ret.op = "CONNECT" /\ ret.path = "query")
            => /\ ret.n_state = "NEW" => ret.r = -ENOTCONN
               /\ ret.n_state = "ACTIVE" => (ret.r = 0 \/ (ret.r = -EFAULT /\ ret.fault))
               /\ ret.r = 0 => "QUERY" \in ret.flags)
    /\ [][\A p \in Peers : QueryReturns(p) =>
            /\ UNCHANGED <<active, acount, rwlock, info, obj, names>>
            /\ UNCHANGED <<dlock, seqcount, map_names, n_names, list_peers, n_peers, users>>
            /\ UNCHANGED <<queue, slices, log, taken, flushed>>]_vars

C23_Witness ==
    /\ ret.op = "CONNECT" /\ ret.path = "query" /\ ret.r = 0
    /\ ret.out = 2 * PAGE_SIZE /\ obj[ret.peer].pool_size = 2 * PAGE_SIZE

C23_WitnessReset ==
    /\ ret.op = "CONNECT" /\ ret.path = "reset" /\ ret.r = 0 /\ "QUERY" \in ret.flags
    /\ ret.out = PAGE_SIZE
C23_WitnessNew ==
    /\ ret.op = "CONNECT" /\ ret.path = "" /\ ret.r = 0 /\ "QUERY" \in ret.flags
    /\ ret.out = PAGE_SIZE /\ active[ret.peer] = "ACTIVE"
C23_WitnessNotConnected ==
    ret.op = "CONNECT" /\ ret.path = "query" /\ ret.r = -ENOTCONN

\* the locks thread t holds: the domain mutex, the read/write lock of a peer
\* (for writing, or for reading inside SLICE_RELEASE, SEND or RECV), the
\* mutex of an info
HoldsDomain(t) == dlock = t
HoldsRw(t) == \E p \in Peers : rwlock[p] = t \/ t \in Readers(p)
HoldsInfo(t) == \E p \in Peers : ilock[p] = t

\* C24: a thread that takes the domain mutex holds neither the read/write
\* lock of a peer nor the mutex of an info, and a thread that takes the
\* read/write lock of a peer holds no mutex of an info.
C24_LockOrderDomainFirst ==
    [][\A t \in Threads :
          /\ (~HoldsDomain(t) /\ HoldsDomain(t)') => (~HoldsRw(t) /\ ~HoldsInfo(t))
          /\ (~HoldsRw(t) /\ HoldsRw(t)') => ~HoldsInfo(t)]_vars

\* the order that does hold: the read/write lock of the peer first, then the
\* domain mutex; a thread that takes either holds no mutex of an info, and a
\* thread that takes the read/write lock does not hold the domain mutex
C24_LockOrderPeerFirst ==
    [][\A t \in Threads :
          /\ (~HoldsDomain(t) /\ HoldsDomain(t)') => (HoldsRw(t) /\ ~HoldsInfo(t))
          /\ (~HoldsRw(t) /\ HoldsRw(t)') => (~HoldsDomain(t) /\ ~HoldsInfo(t))
          /\ (~HoldsInfo(t) /\ HoldsInfo(t)') => (HoldsRw(t) /\ ~HoldsDomain(t))]_vars

\* thread t is about to take the domain mutex, or waits for it
WaitsForDomain(t) == pc[t] \in {"c_dlock", "t_dlock"}

\* C25: a thread that holds the mutex of an info stands inside SLICE_RELEASE
\* or RECV, in the section the mutex guards, and is not about to take the
\* domain mutex nor waiting for it; a thread outside a call holds no such
\* mutex; no thread takes the domain mutex while it holds one; the flush of
\* RESET and of the freeing of an info finds the mutex free and leaves it free.
C25_InfoMutexBelowDomain ==
    /\ [](\A t \in Threads :
            /\ HoldsInfo(t) => /\ ~WaitsForDomain(t)
                               /\ pc[t] \in InfoLockPcs
                               /\ loc[t].op \in {"SLICE_RELEASE", "RECV"}
                               /\ ilock[loc[t].peer] = t
                               /\ ~HoldsDomain(t)
            /\ pc[t] = "idle" => ~HoldsInfo(t))
    /\ [](\A p \in Peers : ilock[p] \in Threads \cup {NoOwner})
    /\ [][/\ \A t \in Threads : (~HoldsDomain(t) /\ HoldsDomain(t)') => ~HoldsInfo(t)
          /\ \A p \in Peers : flushed'[p] # flushed[p]
                                 => (ilock[p] = NoOwner /\ ilock'[p] = NoOwner)]_vars

C25_Witness ==
    \E t, u \in Threads : /\ HoldsInfo(t) /\ pc[t] = "v_dequeue"
                          /\ WaitsForDomain(u) /\ loc[u].peer # loc[t].peer

\* the place of a state in the lifecycle of the active-ref
Rank(a) == CASE a = "NEW" -> 0 [] a = "ACTIVE" -> 1 [] a = "DEACTIVATING" -> 2
             [] a = "DEAD" -> 3

\* C26: the active-ref of a peer never steps back in NEW, ACTIVE,
\* DEACTIVATING, DEAD, and a peer that is DEACTIVATING or DEAD never becomes
\* ACTIVE; a peer on which a DISCONNECT has returned is DEAD, whether or not
\* it was ever connected; a CONNECT that passed its parameter checks and finds
\* the peer deactivated when it has the peer lock returns -ESHUTDOWN and
\* changes nothing of the peers, the domain index and list, queues and pools.
C26_LifecycleForwardOnly ==
    /\ [][\A p \in Peers :
            /\ Rank(active'[p]) >= Rank(active[p])
            /\ bus1_active_is_deactivated(active[p]) => active'[p] # "ACTIVE"]_vars
    /\ []((ret.op = "DISCONNECT" /\ ret.r # -EINVAL) => active[ret.peer] = "DEAD")
    /\ [][\A t \in Threads :
            (pc[t] = "c_lock" /\ pc'[t] # "c_lock"
             /\ bus1_active_is_deactivated(active[loc[t].peer]))
               => /\ pc'[t] = "idle"
                  /\ ret'.op = "CONNECT" /\ ret'.peer = loc[t].peer
                  /\ ret'.r = -ESHUTDOWN /\ ret'.flags = {}
                  /\ UNCHANGED <<active, acount, rwlock, info, obj, names>>
                  /\ UNCHANGED <<dlock, seqcount, map_names, n_names, list_peers,
                                 n_peers, users>>
                  /\ UNCHANGED <<queue, slices>>]_vars

C26_Witness ==
    /\ ret.op = "CONNECT" /\ ret.r = -ESHUTDOWN /\ dom_active
    /\ active[ret.peer] = "DEAD"
    /\ n_cleanup[ret.peer] = 0 /\ n_disc[ret.peer] = 1

C26_WitnessConnected ==
    /\ ret.op = "CONNECT" /\ ret.r = -ESHUTDOWN /\ dom_active
    /\ active[ret.peer] = "DEAD" /\ n_cleanup[ret.peer] = 1

\* thread t takes a step of the loop of RECV and stays in it: it reserves
\* again and retries
Retries(t) == pc[t] = "v_dequeue" /\ pc'[t] = "v_dequeue" /\ loc'[t].tries # loc[t].tries

\* C27: RECV without PEEK dequeues the first message only with at least as
\* many descriptors reserved as the message has files; a retry of its loop
\* happens only for a first message with more files than are reserved and
\* leaves exactly that many reserved, so the reserved number grows with every
\* retry and never exceeds the largest number of files of a message; the
\* call returns, with the message, -EAGAIN, or the error of the allocation,
\* of the reservation, of the pool write or of the copy-back.
C27_RetryLoopTerminates ==
    /\ [][\A t \in Threads :
            LET p == loc[t].peer
                head == bus1_queue_peek(queue[p])
            IN
            /\ Retries(t) => /\ head # NoMsg
                             /\ head.n_files > loc[t].n_fds
                             /\ loc'[t].n_fds = head.n_files
                             /\ loc'[t].tries = loc[t].tries + 1
                             /\ queue' = queue /\ taken' = taken
            /\ (pc[t] = "v_dequeue" /\ taken'[p] # taken[p])
                  => (head # NoMsg /\ loc[t].n_fds >= head.n_files)
            /\ (pc[t] = "v_dequeue" /\ pc'[t] = "v_dequeue")
                  => loc'[t].n_fds >= loc[t].n_fds]_vars
    /\ [](\A t \in Threads :
            pc[t] \in {"v_dequeue", "v_install"}
               => /\ loc[t].n_fds <= MaxFiles /\ loc[t].res <= MaxFiles
                  /\ loc[t].tries <= loc[t].n_fds)
    /\ []((ret.op = "RECV" /\ ~ret.peek /\ ret.n_state = "ACTIVE")
            => /\ ret.r \in {0, -EAGAIN, -ENOMEM, -EMFILE, -EFAULT, -EINVAL}
               /\ ret.tries <= MaxFiles
               /\ ret.r = 0 => InSeq(ret.msg.id, taken[ret.peer]))
    /\ \A t \in Threads : (pc[t] = "v_dequeue") ~> (pc[t] = "idle")

C27_Witness ==
    /\ ret.op = "RECV" /\ ~ret.peek /\ ret.r = 0
    /\ ret.tries > 0 /\ ret.ins = MaxFiles

\* ------------------- every command of bus1_peer_ioctl and the domain teardown
\* peer 1 has connected with one name and its CONNECT has returned; peer 2 is
\* NEW; no message has been sent
InitAll ==
    /\ Connected0({1})
    /\ NoMessages
    /\ calls = 1

NextAll == Next \/ NextLife

SpecAll == InitAll /\ [][NextAll]_vars

\* every call that has begun goes on whenever it is not blocked
FairAll == SpecAll /\ WF_vars(NextAll)

\* the positions of a call between mutex_lock and mutex_unlock of the domain
DomainHeldPcs == {"c_add", "c_unwind", "c_unwound", "t_cleanup"}

\* C28: a thread that waits for the references of a peer to drain holds the
\* write side of the peer's rwlock and not the domain mutex, and so does the
\* domain while it waits for its peers to drain; a thread holds the domain
\* mutex only where its next step waits for nothing; and every call of
\* CONNECT, RESOLVE, DISCONNECT, SEND, RECV and SLICE_RELEASE that has begun
\* returns, whatever the other thread, the holders of references and the
\* domain teardown do.
C28_EveryCallReturns ==
    /\ [](\A t \in Threads :
            /\ pc[t] = "t_drain" => (~HoldsDomain(t) /\ rwlock[loc[t].peer] = t)
            /\ HoldsDomain(t) <=> pc[t] \in DomainHeldPcs
            /\ HoldsDomain(t) => ENABLED (\/ ConnectAdd(t) \/ ConnectPublish(t)
                                          \/ ConnectUnwind(t) \/ ConnectError(t)
                                          \/ TeardownCleanup(t)))
    /\ [](dpc \in {"drain", "peers"} => dlock # DomainOwner)
    /\ \A t \in Threads : (pc[t] # "idle") ~> (pc[t] = "idle")

\* a DISCONNECT of one peer is inside the domain mutex while the CONNECT of
\* another peer, holding that peer's rwlock, waits for the mutex
C28_Witness ==
    \E t, u \in Threads :
        /\ pc[t] = "t_cleanup" /\ HoldsDomain(t)
        /\ pc[u] = "c_dlock" /\ rwlock[loc[u].peer] = u
        /\ loc[u].peer # loc[t].peer

\* a DISCONNECT waits for the rwlock of a peer that a SLICE_RELEASE holds
\* together with the info mutex
C28_WitnessRwlock ==
    \E t, u \in Threads :
        /\ pc[t] = "t_lock" /\ loc[u].peer = loc[t].peer
        /\ pc[u] = "x_release" /\ ilock[loc[u].peer] = u

\* a DISCONNECT waits for a reference in flight to be released
C28_WitnessDrain ==
    \E t \in Threads :
        pc[t] = "t_drain" /\ ~bus1_active_drain(acount[loc[t].peer])

\* a RECV that has installed descriptors returns
C28_WitnessRecv == ret.op = "RECV" /\ ret.r = 0 /\ ret.ins > 0
====
